---- MODULE Spec2Model ----
(***************************************************************************)
(* Model of the Monaco Protocol client: query objects (two-phase scan and  *)
(* batch fetch), address derivation, aggregation functions and mutation    *)
(* functions, each returning a response envelope.                          *)
(*                                                                         *)
(* One public operation runs at a time.  Every await of the source is one  *)
(* step; the remote ledger answers a step or fails it, and may close       *)
(* accounts while a batch fetch is pending.                                *)
(***************************************************************************)
EXTENDS Integers, Sequences, FiniteSets, TLC

(***************************************************************************)
(* Bounds of the model.                                                    *)
(***************************************************************************)
\* number of bet order accounts on the ledger
MaxOrders == 3
\* largest reading of the clock (Date.now())
MaxClock == 2
\* number of createBetOrder calls made one after the other
MaxCalls == 2
MaxFilters == 3

(***************************************************************************)
(* Public keys are byte strings, modelled as sequences of tokens.          *)
(***************************************************************************)
ProviderWallet == <<"w1">>
OtherWallet == <<"w2">>
Wallets == {ProviderWallet, OtherWallet}
M1 == <<"m1">>
M2 == <<"m2">>
MarketPks == {M1, M2}
Mint == <<"mint">>

OrderNames == <<"b1", "b2", "b3", "b4", "b5">>
BetOrderPk(i) == <<OrderNames[i]>>
BetOrderPks == {BetOrderPk(i) : i \in 1..MaxOrders}

\* types/bet_order.ts BetOrderStatus
Open == 0
Matched == 1
SettledWin == 2
SettledLose == 3
Cancelled == 4

(***************************************************************************)
(* JavaScript values that the code tests at run time.                      *)
(***************************************************************************)
Null == [isNull |-> TRUE]
Undefined == <<"undefined">>
JsString(v) == [type |-> "string", value |-> v]
JsPublicKey(v) == [type |-> "PublicKey", value |-> v]
Truthy(v) == "isNull" \notin DOMAIN v
SeqToSet(seq) == {seq[i] : i \in 1..Len(seq)}
Has(obj, f) == f \in DOMAIN obj

(***************************************************************************)
(* Response envelope (types/client ResponseFactory).                       *)
(***************************************************************************)
EmptyData == <<>>
ResponseFactory(opts) == [success |-> TRUE, errors |-> <<>>, data |-> opts]
addError(r, e) == [r EXCEPT !.success = FALSE, !.errors = Append(@, e)]
addErrors(r, es) == [r EXCEPT !.success = @ /\ es = <<>>, !.errors = @ \o es]
addResponseData(r, d) == [r EXCEPT !.data = d @@ @]

RemoteError(what) == [errorCode |-> "remote", errorMessage |-> what]
TypeError(what) == [errorCode |-> "TypeError", errorMessage |-> what]
\* types/errors NoCancellableBetOrdersFound
NoCancellableBetOrdersFound ==
    [errorCode |-> "M001", errorMessage |-> "No cancellable bet orders found."]

(***************************************************************************)
(* Account layout of the external program, as the filters assume it, and   *)
(* the accounts the program owns.                                          *)
(***************************************************************************)
StatusBytes == <<"0x00", "0x01", "0x02", "0x03", "0x04">>
StatusByte(status) == StatusBytes[status + 1]
accountDiscriminator(name) == <<"discriminator", name>>
Bs58Encode(bytes) == <<"bs58">> \o bytes
Bs58Decode(text) == Tail(text)
toBase58(pk) == Bs58Encode(pk)

(***************************************************************************)
(* Text.  A string is the sequence of its characters, and Buffer.from of   *)
(* an ASCII string is the same sequence as bytes.                          *)
(***************************************************************************)
DigitChars == <<"0", "1", "2", "3", "4", "5", "6", "7", "8", "9">>
RECURSIVE IntText(_)
IntText(n) == IF n < 10 THEN <<DigitChars[n + 1]>>
              ELSE IntText(n \div 10) \o <<DigitChars[(n % 10) + 1]>>
BufferFrom(text) == text
\* boolean.toString()
BoolText(b) == IF b THEN <<"t", "r", "u", "e">> ELSE <<"f", "a", "l", "s", "e">>
\* number.toFixed(3), the number given in 1/OddsScale
OddsScale == 10000
ToFixed3_truncated(odds) ==
    LET thousandths == ((odds \div OddsScale) * 1000)
        frac == thousandths % 1000
    IN IntText(thousandths \div 1000) \o <<".">>
       \o <<DigitChars[(frac \div 100) + 1], DigitChars[((frac \div 10) % 10) + 1],
            DigitChars[(frac % 10) + 1]>>
ToFixed3(odds) ==
    LET thousandths == (odds * 1000 + OddsScale \div 2) \div OddsScale
        frac == thousandths % 1000
    IN IntText(thousandths \div 1000) \o <<".">>
       \o <<DigitChars[(frac \div 100) + 1], DigitChars[((frac \div 10) % 10) + 1],
            DigitChars[(frac % 10) + 1]>>

\* a JS number in 1/OddsScale as JSON.stringify writes it: no trailing zeros, no
\* point when it is whole
RECURSIVE StripZeros(_)
StripZeros(digits) ==
    IF digits # <<>> /\ digits[Len(digits)] = "0"
    THEN StripZeros(SubSeq(digits, 1, Len(digits) - 1)) ELSE digits
NumberText(n) ==
    LET frac == n % OddsScale
        digits == StripZeros(Tail(IntText(OddsScale + frac)))
    IN IntText(n \div OddsScale) \o (IF digits = <<>> THEN <<>> ELSE <<".">> \o digits)
\* the number a JSON number text is parsed to
DigitValue(c) == CHOOSE d \in 0..9 : DigitChars[d + 1] = c
RECURSIVE DigitsValue(_)
DigitsValue(digits) ==
    IF digits = <<>> THEN 0
    ELSE DigitsValue(SubSeq(digits, 1, Len(digits) - 1)) * 10 + DigitValue(digits[Len(digits)])
RECURSIVE PadZeros(_, _)
PadZeros(digits, width) ==
    IF Len(digits) >= width THEN digits ELSE PadZeros(digits \o <<"0">>, width)
IndexOf(text, c) ==
    IF \E i \in 1..Len(text) : text[i] = c
    THEN CHOOSE i \in 1..Len(text) : text[i] = c /\ \A j \in 1..(i - 1) : text[j] # c
    ELSE 0
ParseNumber(text) ==
    LET point == IndexOf(text, ".")
    IN IF point = 0 THEN DigitsValue(text) * OddsScale
       ELSE DigitsValue(SubSeq(text, 1, point - 1)) * OddsScale
            + DigitsValue(PadZeros(SubSeq(text, point + 1, Len(text)), 4))

\* JSON.stringify of {marketOutcome, odds, backing}; the punctuation between the
\* values is written as one symbol each
JsonOpen == "{\"marketOutcome\":\""
JsonOdds == "\",\"odds\":"
JsonBacking == ",\"backing\":"
JsonClose == "}"
JsonStringify(price) ==
    <<JsonOpen>> \o price.marketOutcome \o <<JsonOdds>> \o NumberText(price.odds)
        \o <<JsonBacking>> \o BoolText(price.backing) \o <<JsonClose>>
JsonParse(text) ==
    LET odds == IndexOf(text, JsonOdds)
        backing == IndexOf(text, JsonBacking)
    IN [marketOutcome |-> SubSeq(text, 2, odds - 1),
        odds |-> ParseNumber(SubSeq(text, odds + 1, backing - 1)),
        backing |-> SubSeq(text, backing + 1, Len(text) - 1) = BoolText(TRUE)]

\* new Set() filled by add(): insertion order, one entry per value
RECURSIVE SetAddAll_keepAll(_, _)
SetAddAll_keepAll(set, values) ==
    IF values = <<>> THEN set
    ELSE SetAddAll_keepAll(Append(set, Head(values)), Tail(values))
RECURSIVE SetAddAll(_, _)
SetAddAll(set, values) ==
    IF values = <<>> THEN set
    ELSE SetAddAll(IF \E i \in 1..Len(set) : set[i] = Head(values)
                   THEN set ELSE Append(set, Head(values)),
                   Tail(values))

(***************************************************************************)
(* Address derivation.  PublicKey.findProgramAddress hashes the seeds one  *)
(* after the other; with no hash collision the address stands for the      *)
(* concatenated seed bytes.                                                *)
(***************************************************************************)
RECURSIVE ConcatSeeds(_)
ConcatSeeds(seeds) == IF seeds = <<>> THEN <<>> ELSE Head(seeds) \o ConcatSeeds(Tail(seeds))
findProgramAddress(seeds) == <<"pda">> \o ConcatSeeds(seeds)

MarketOutcomeSeeds(marketPk, marketOutcome) == <<marketPk, BufferFrom(marketOutcome)>>
MarketMatchingPoolSeeds(marketPk, marketOutcome, odds, backing) ==
    <<marketPk, BufferFrom(marketOutcome), BufferFrom(ToFixed3(odds)),
      BufferFrom(BoolText(backing))>>

\* types/market.ts MarketAccount, the fields the client reads
TitleA == <<"A">>
TitleB == <<"B">>
TitleC == <<"C">>
TitleD == <<"D">>
MarketAccount(marketPk) ==
    [marketOutcomes |-> IF marketPk = M1 THEN <<TitleA, TitleB>> ELSE <<TitleC, TitleD>>,
     mintAccount |-> Mint]

\* market outcome accounts live at their derived address
MarketOutcomePk(marketPk, index) ==
    findProgramAddress(
        MarketOutcomeSeeds(marketPk, MarketAccount(marketPk).marketOutcomes[index + 1]))
MarketOutcomePks == {MarketOutcomePk(m, i) : m \in MarketPks, i \in 0..1}
MarketOutcomeAccountAt(pk) ==
    LET m == IF pk \in {MarketOutcomePk(M1, 0), MarketOutcomePk(M1, 1)} THEN M1 ELSE M2
        i == IF pk \in {MarketOutcomePk(M1, 0), MarketOutcomePk(M2, 0)} THEN 0 ELSE 1
    IN [title |-> MarketAccount(m).marketOutcomes[i + 1], market |-> m, index |-> i]

\* matching pool accounts live at their derived address; liquidity stands for
\* the pool's contents
MarketMatchingPoolPk(marketPk, marketOutcome, odds, backing) ==
    findProgramAddress(MarketMatchingPoolSeeds(marketPk, marketOutcome, odds, backing))
MarketMatchingPoolPks ==
    { MarketMatchingPoolPk(M1, TitleA, 15000, TRUE),
      MarketMatchingPoolPk(M1, TitleB, 20000, FALSE) }
MarketMatchingPoolAccountAt(pk) == [liquidityAmount |-> 100, matchedAmount |-> 0, pool |-> pk]

\* price points of the bet orders on the ledger, odds in 1/OddsScale
PriceA == [marketOutcomeIndex |-> 0, expectedOdds |-> 15000, backing |-> TRUE]
PriceB == [marketOutcomeIndex |-> 1, expectedOdds |-> 20000, backing |-> FALSE]

\* the bet orders a ledger may hold (types/bet_order.ts BetOrder)
BetOrder(purchaser, market, status, stakeUnmatched, price) ==
    [purchaser |-> purchaser, market |-> market, betOrderStatus |-> status,
     stakeUnmatched |-> stakeUnmatched,
     marketOutcomeIndex |-> price.marketOutcomeIndex,
     expectedOdds |-> price.expectedOdds, backing |-> price.backing]
BetOrderValues ==
    { BetOrder(ProviderWallet, M1, Open, 5, PriceA),
      BetOrder(ProviderWallet, M1, Matched, 5, PriceA),
      BetOrder(ProviderWallet, M1, Matched, 0, PriceB),
      BetOrder(ProviderWallet, M1, Cancelled, 0, PriceB),
      BetOrder(OtherWallet, M1, Open, 5, PriceB),
      BetOrder(ProviderWallet, M2, Matched, 5, PriceA) }

\* serialized account data: the field found at each byte offset
BetOrderData(account) ==
    (0 :> accountDiscriminator("bet_order")) @@ (8 :> account.purchaser)
    @@ (40 :> account.market) @@ (75 :> <<StatusByte(account.betOrderStatus)>>)
MarketOutcomeData(account) ==
    (0 :> accountDiscriminator("market_outcome")) @@ (8 :> account.market)
MarketMatchingPoolData(account) ==
    (0 :> accountDiscriminator("market_matching_pool"))

(***************************************************************************)
(* State.                                                                  *)
(***************************************************************************)
VARIABLES
    ledger,     \* bet order accounts of the program, by address
    closed,     \* addresses whose account has been closed
    pc,         \* position of the public operation in progress
    call,       \* the public operation and its arguments
    response,   \* the operation's ResponseFactory
    query,      \* the query object in flight (BetOrders / MarketOutcomes)
    local,      \* local variables of the operation
    tasks,      \* per-item state of a Promise.all fan-out
    txLog,      \* transactions submitted, in submission order
    ret         \* how the operation completed

vars == <<ledger, closed, pc, call, response, query, local, tasks, txLog, ret>>

\* all accounts owned by the program, in the order a scan lists them
ProgramAccountKeys ==
    [i \in 1..MaxOrders |-> BetOrderPk(i)]
    \o <<MarketOutcomePk(M1, 0), MarketOutcomePk(M1, 1),
         MarketOutcomePk(M2, 0), MarketOutcomePk(M2, 1)>>
    \o <<MarketMatchingPoolPk(M1, TitleA, 15000, TRUE),
         MarketMatchingPoolPk(M1, TitleB, 20000, FALSE)>>
ProgramAccountPks == BetOrderPks \cup MarketOutcomePks \cup MarketMatchingPoolPks
AccountAt(pk) ==
    IF pk \in BetOrderPks THEN ledger[pk]
    ELSE IF pk \in MarketOutcomePks THEN MarketOutcomeAccountAt(pk)
    ELSE MarketMatchingPoolAccountAt(pk)
AccountData(pk) ==
    IF pk \in BetOrderPks THEN BetOrderData(ledger[pk])
    ELSE IF pk \in MarketOutcomePks THEN MarketOutcomeData(MarketOutcomeAccountAt(pk))
    ELSE MarketMatchingPoolData(MarketMatchingPoolAccountAt(pk))
AccountExists(pk) == pk \in ProgramAccountPks /\ pk \notin closed

(***************************************************************************)
(* Account filter builder and query objects.                               *)
(***************************************************************************)
toFilter(offset, bytes) == [memcmp |-> [offset |-> offset, bytes |-> bytes]]

\* new BetOrders(program)
BetOrdersNew == <<toFilter(0, Bs58Encode(accountDiscriminator("bet_order")))>>
BetOrders_filterByPurchaser(filter, purchaser) ==
    Append(filter, toFilter(8, toBase58(purchaser)))
BetOrders_filterByMarket_purchaserOffset(filter, market) ==
    Append(filter, toFilter(8, toBase58(market)))
BetOrders_filterByMarket(filter, market) ==
    Append(filter, toFilter(8 + 32, toBase58(market)))
BetOrders_filterByStatus(filter, status) ==
    Append(filter, toFilter(8 + 32 + 32 + 2 + 1, Bs58Encode(<<StatusByte(status)>>)))

\* new MarketOutcomes(program)
MarketOutcomesNew == <<toFilter(0, Bs58Encode(accountDiscriminator("market_outcome")))>>
MarketOutcomes_filterByMarket(filter, market) ==
    Append(filter, toFilter(8, toBase58(market)))

\* connection.getProgramAccounts(programId, {filters}): the remote scan
MemcmpMatches(data, f) ==
    /\ f.memcmp.offset \in DOMAIN data
    /\ data[f.memcmp.offset] = Bs58Decode(f.memcmp.bytes)
getProgramAccounts(filter) ==
    SelectSeq(ProgramAccountKeys,
              LAMBDA pk : /\ AccountExists(pk)
                          /\ \A i \in 1..Len(filter) :
                                MemcmpMatches(AccountData(pk), filter[i]))

\* program.account.<kind>.fetchMultiple(addresses): null for a missing account
fetchMultiple(addresses) ==
    [i \in 1..Len(addresses) |->
        IF AccountExists(addresses[i]) THEN AccountAt(addresses[i]) ELSE Null]

\* fetchPublicKeys(), the same code in both query classes
fetchPublicKeysOf(publicKeys, ok) ==
    LET r == ResponseFactory(EmptyData)
    IN IF ok THEN addResponseData(r, [publicKeys |-> publicKeys])
       ELSE addError(r, RemoteError("getProgramAccounts"))
fetchPublicKeys(filter, ok) == fetchPublicKeysOf(getProgramAccounts(filter), ok)

\* the orders in which a scan may list the accounts it found
ScanOrders(publicKeys) ==
    {[i \in 1..Len(publicKeys) |-> publicKeys[order[i]]] :
        order \in Permutations(1..Len(publicKeys))}

\* .map((pk, i) => ({publicKey, account})).filter((o) => o.account)
ZipAccounts(publicKeys, accountsWithData) ==
    [i \in 1..Len(publicKeys) |->
        [publicKey |-> publicKeys[i], account |-> accountsWithData[i]]]
BetOrders_keepClosed(publicKeys, accountsWithData) ==
    ZipAccounts(publicKeys, accountsWithData)
BetOrders_dropClosed(publicKeys, accountsWithData) ==
    SelectSeq(ZipAccounts(publicKeys, accountsWithData), LAMBDA o : Truthy(o.account))
MarketOutcomes_dropClosed(publicKeys, accountsWithData) ==
    SelectSeq(ZipAccounts(publicKeys, accountsWithData), LAMBDA o : Truthy(o.account))

\* the part of fetch() after a successful scan
BetOrders_fetchBody(accountPublicKeys, ok) ==
    LET r == ResponseFactory(EmptyData)
        pks == accountPublicKeys.data.publicKeys
    IN IF ok
       THEN addResponseData(r,
                [betOrderAccounts |-> BetOrders_dropClosed(pks, fetchMultiple(pks))])
       ELSE addError(r, RemoteError("fetchMultiple"))
MarketOutcomes_fetchBody(accountPublicKeys, ok) ==
    LET r == ResponseFactory(EmptyData)
        pks == accountPublicKeys.data.publicKeys
    IN IF ok
       THEN addResponseData(r,
                [marketOutcomeAccounts |-> MarketOutcomes_dropClosed(pks, fetchMultiple(pks))])
       ELSE addError(r, RemoteError("fetchMultiple"))

(***************************************************************************)
(* Address lookups returning an envelope, and batch fetches by address.    *)
(***************************************************************************)
\* findMarketOutcomePda: a failed derivation is caught into the envelope
findMarketOutcomePda(marketPk, marketOutcome, ok) ==
    LET r == ResponseFactory(EmptyData)
    IN IF ok
       THEN addResponseData(r,
                [pda |-> findProgramAddress(MarketOutcomeSeeds(marketPk, marketOutcome))])
       ELSE addError(r, RemoteError("findProgramAddress"))

\* findMarketOutcomeAccountPDAs: the list holds the envelopes findMarketOutcomePda
\* returned; failed is the set of positions whose derivation failed
findMarketOutcomeAccountPDAs(marketPk, marketOutcomes, failed) ==
    addResponseData(ResponseFactory(EmptyData),
        [marketOutcomePDAs |->
            [i \in 1..Len(marketOutcomes) |->
                findMarketOutcomePda(marketPk, marketOutcomes[i], i \notin failed)]])

\* getMarketOutcomeAccounts after the lookup: fetchMultiple reads the address each
\* list entry carries and throws on an entry that carries none
getMarketOutcomeAccounts_fetchBody(marketOutcomePDAs, ok) ==
    LET r == ResponseFactory(EmptyData)
        list == marketOutcomePDAs.data.marketOutcomePDAs
    IN IF ok /\ \A i \in 1..Len(list) : Has(list[i].data, "pda")
       THEN addResponseData(r,
                [marketOutcomeAccounts |->
                    fetchMultiple([i \in 1..Len(list) |-> list[i].data.pda])])
       ELSE addError(r, RemoteError("fetchMultiple"))

\* findMarketMatchingPoolPda: no try/catch, a failed derivation rejects the caller
findMarketMatchingPoolPda(marketPk, marketOutcome, odds, backing) ==
    addResponseData(ResponseFactory(EmptyData),
        [pda |-> findProgramAddress(
                    MarketMatchingPoolSeeds(marketPk, marketOutcome, odds, backing))])

getMarketMatchingPoolAccounts_dropMissing(pdas, matchingPools) ==
    SelectSeq(ZipAccounts(pdas, matchingPools), LAMBDA o : Truthy(o.account))
getMarketMatchingPoolAccounts_body(marketMatchingPoolPDAs, ok) ==
    LET r == ResponseFactory(EmptyData)
    IN IF ok
       THEN addResponseData(r,
                [marketMatchingPools |->
                    getMarketMatchingPoolAccounts_dropMissing(
                        marketMatchingPoolPDAs, fetchMultiple(marketMatchingPoolPDAs))])
       ELSE addErrors(r, <<RemoteError("fetchMultiple")>>)

(***************************************************************************)
(* Single account fetches and the lookups of the mutation functions.       *)
(***************************************************************************)
\* program.account.<kind>.fetch throws when the account is missing
getBetOrder(betOrderPk, ok) ==
    LET r == ResponseFactory(EmptyData)
    IN IF ok /\ AccountExists(betOrderPk)
       THEN addResponseData(r, [publicKey |-> betOrderPk, account |-> AccountAt(betOrderPk)])
       ELSE addError(r, RemoteError("betOrder.fetch"))
getMarket(marketPk, ok) ==
    LET r == ResponseFactory(EmptyData)
    IN IF ok
       THEN addResponseData(r, [publicKey |-> marketPk, account |-> MarketAccount(marketPk)])
       ELSE addError(r, RemoteError("market.fetch"))

\* findMarketPositionPda: no try/catch, a failed derivation rejects the caller
findMarketPositionPda(marketPk, purchaserPk) ==
    addResponseData(ResponseFactory(EmptyData),
        [pda |-> findProgramAddress(<<purchaserPk, marketPk>>)])
\* utils findEscrowPda and wallet_tokens getWalletTokenAccount return envelopes
findEscrowPda(marketPk, ok) ==
    LET r == ResponseFactory(EmptyData)
    IN IF ok THEN addResponseData(r, [pda |-> <<"escrow">> \o marketPk])
       ELSE addError(r, RemoteError("findEscrowPda"))
getWalletTokenAccount(tokenMint, ok) ==
    LET r == ResponseFactory(EmptyData)
    IN IF ok
       THEN addResponseData(r,
                [associatedTokenAccount |-> <<"ata">> \o ProviderWallet \o tokenMint])
       ELSE addError(r, RemoteError("getWalletTokenAccount"))

\* utils getMarketAccounts: the market and the addresses createBetOrder needs
getMarketAccounts(marketPk, backing, marketOutcomeIndex, odds, ok) ==
    LET r == ResponseFactory(EmptyData)
        market == MarketAccount(marketPk)
        marketOutcome == market.marketOutcomes[marketOutcomeIndex + 1]
    IN IF ok
       THEN addResponseData(r,
                [escrowPda |-> <<"escrow">> \o marketPk,
                 marketOutcomePda |->
                    findProgramAddress(MarketOutcomeSeeds(marketPk, marketOutcome)),
                 marketOutcomePoolPda |->
                    findProgramAddress(
                        MarketMatchingPoolSeeds(marketPk, marketOutcome, odds, backing)),
                 marketPositionPda |-> findProgramAddress(<<ProviderWallet, marketPk>>),
                 market |-> market])
       ELSE addError(r, RemoteError("getMarketAccounts"))

\* findBetOrderPda: the seed is the clock reading as text; a failed derivation
\* is caught into the envelope
findBetOrderPda_seedReread(marketPk, purchaserPk, now, ok) ==
    LET r == ResponseFactory(EmptyData)
    IN IF ok
       THEN addResponseData(r,
                [betOrderPk |-> findProgramAddress(
                                    <<marketPk, purchaserPk, BufferFrom(IntText(now))>>),
                 distinctSeed |-> IntText(now + 1)])
       ELSE addError(r, RemoteError("findProgramAddress"))
findBetOrderPda(marketPk, purchaserPk, now, ok) ==
    LET r == ResponseFactory(EmptyData)
        distinctSeed == IntText(now)
    IN IF ok
       THEN addResponseData(r,
                [betOrderPk |-> findProgramAddress(
                                    <<marketPk, purchaserPk, BufferFrom(distinctSeed)>>),
                 distinctSeed |-> distinctSeed])
       ELSE addError(r, RemoteError("findProgramAddress"))

\* getMarketOutcomeTitlesByMarket: result[account.index] = account.title
OutcomeTitles_scanOrder(marketOutcomeAccounts) ==
    [index \in 0..(Len(marketOutcomeAccounts) - 1) |->
        marketOutcomeAccounts[index + 1].account.title]
OutcomeTitles(marketOutcomeAccounts) ==
    LET indexes == {marketOutcomeAccounts[i].account.index :
                        i \in 1..Len(marketOutcomeAccounts)}
        last(index) == CHOOSE i \in 1..Len(marketOutcomeAccounts) :
                        /\ marketOutcomeAccounts[i].account.index = index
                        /\ \A j \in 1..Len(marketOutcomeAccounts) :
                            marketOutcomeAccounts[j].account.index = index => j <= i
    IN [index \in indexes |-> marketOutcomeAccounts[last(index)].account.title]

\* reading a property: undefined when the object does not have it
Get(obj, f) == IF Has(obj, f) THEN obj[f] ELSE Undefined

\* the transaction signature rpc() resolves to, for the n-th transaction sent
TxSignature(n) == <<"sig", DigitChars[n + 1]>>
TxError(instruction, pk) == [errorCode |-> instruction, errorMessage |-> pk[Len(pk)]]
\* a transaction naming an undefined account cannot be sent
AccountsResolved(accounts) == \A f \in DOMAIN accounts : accounts[f] # Undefined

\* the accounts of the cancelBet instruction
CancelBetAccounts(betOrderPk, betOrder, market, lookups, marketMatchingPool) ==
    [betOrder |-> betOrderPk,
     marketPosition |-> Get(lookups.marketPositionPda.data, "pda"),
     purchaser |-> ProviderWallet,
     purchaserTokenAccount |->
        Get(lookups.purchaserTokenAccount.data, "associatedTokenAccount"),
     marketMatchingPool |-> Get(marketMatchingPool.data, "pda"),
     market |-> betOrder.market,
     marketEscrow |-> Get(lookups.escrowPda.data, "pda"),
     mint |-> market.mintAccount]

\* getCancellableBetOrdersByMarketForProviderWallet after the fetch
Cancellable_unfiltered(betOrders) == betOrders
Cancellable_all(betOrders) ==
    [betOrders EXCEPT !.data.betOrderAccounts =
        SelectSeq(@, LAMBDA betOrder : betOrder.account.stakeUnmatched >= 0)]
Cancellable(betOrders) ==
    [betOrders EXCEPT !.data.betOrderAccounts =
        SelectSeq(@, LAMBDA betOrder : betOrder.account.stakeUnmatched > 0)]

\* createBetOrder once rpc() has settled
createBetOrder_settle(r, betOrderPk, ok, signature) ==
    addResponseData(
        IF ok THEN r ELSE addError(r, TxError("createBet", betOrderPk)),
        [betOrderPk |-> betOrderPk, tnxID |-> IF ok THEN signature ELSE Undefined])

\* cancelBetOrdersForMarket: the test for nothing to cancel
NoOrders_neverEmpty(betOrders) == Len(betOrders) < 0
NoOrders(betOrders) == Len(betOrders) < 1

\* variants of cancelBetOrder's settle step: the catch drops the error; the
\* catch returns before the response data is added
cancelBetOrder_settle_swallow(r, betOrderPk, ok, signature) ==
    addResponseData(r,
        [betOrderPk |-> betOrderPk, tnxID |-> IF ok THEN signature ELSE Undefined])
cancelBetOrder_settle_bare(r, betOrderPk, ok, signature) ==
    IF ok
    THEN addResponseData(r, [betOrderPk |-> betOrderPk, tnxID |-> signature])
    ELSE addError(r, TxError("cancelBet", betOrderPk))

\* cancelBetOrder once rpc() has settled: the catch records the error, then the
\* response data is added either way
cancelBetOrder_settle(r, betOrderPk, ok, signature) ==
    addResponseData(
        IF ok THEN r ELSE addError(r, TxError("cancelBet", betOrderPk)),
        [betOrderPk |-> betOrderPk, tnxID |-> IF ok THEN signature ELSE Undefined])

\* cancelBetOrdersForMarket: what one order's callback resolves to
cancelBetOrdersForMarket_result_string(betOrderPk, ok, signature) ==
    JsString(IF ok THEN signature ELSE betOrderPk)
cancelBetOrdersForMarket_result(betOrderPk, ok, signature) ==
    IF ok THEN JsString(signature) ELSE JsPublicKey(betOrderPk)
\* variant of the split that reports every order as failed
cancelBetOrdersForMarket_partition_allFailed(results) ==
    LET strings == SelectSeq(results, LAMBDA value : value.type = "string")
    IN [failedCancellationBetOrders |-> [i \in 1..Len(results) |-> results[i].value],
        tnxIDs |-> [i \in 1..Len(strings) |-> strings[i].value]]
\* cancelBetOrdersForMarket after Promise.all: the results split by type
cancelBetOrdersForMarket_partition(results) ==
    LET strings == SelectSeq(results, LAMBDA value : value.type = "string")
        keys == SelectSeq(results, LAMBDA value : value.type = "PublicKey")
    IN [failedCancellationBetOrders |-> [i \in 1..Len(keys) |-> keys[i].value],
        tnxIDs |-> [i \in 1..Len(strings) |-> strings[i].value]]

\* the commitment a batch fetch names in its second argument; the fetches by
\* derived address name none and leave it to the connection
NotRequested == <<"none">>
Confirmed == <<"confirmed">>
Commitment(kind) ==
    IF kind \in {"bet_order", "market_outcome"} THEN Confirmed ELSE Undefined

NoQuery ==
    [kind |-> "none", filter |-> <<>>, phase |-> "none", commitment |-> NotRequested,
     keys |-> ResponseFactory(EmptyData), body |-> ResponseFactory(EmptyData)]
NewQuery(kind, filter) == [NoQuery EXCEPT !.kind = kind, !.filter = filter, !.phase = "scan"]

Pending == [kind |-> "pending", value |-> <<>>]
Returned(v) == [kind |-> "returned", value |-> v]
Rejected(e) == [kind |-> "rejected", value |-> e]

(***************************************************************************)
(* Initial state: any ledger of MaxOrders bet orders, no call in progress. *)
(***************************************************************************)
Init ==
    /\ ledger \in [BetOrderPks -> BetOrderValues]
    /\ closed = {}
    /\ pc = "idle"
    /\ call = [op |-> "none"]
    /\ response = ResponseFactory(EmptyData)
    /\ query = NoQuery
    /\ local = <<>>
    /\ tasks = <<>>
    /\ txLog = <<>>
    /\ ret = Pending

(***************************************************************************)
(* Query object steps: scan, then batch fetch.  fetch() returns at once    *)
(* with the scan's errors when the scan failed.                            *)
(***************************************************************************)
ScanStep(kind, orders) ==
    /\ query.phase = "scan"
    /\ query.kind = kind
    /\ \E ok \in BOOLEAN, publicKeys \in orders :
        LET accountPublicKeys == fetchPublicKeysOf(publicKeys, ok)
        IN query' =
            IF accountPublicKeys.success
            THEN [query EXCEPT !.keys = accountPublicKeys, !.phase = "fetch"]
            ELSE [query EXCEPT !.keys = accountPublicKeys, !.phase = "done",
                               !.body = addErrors(ResponseFactory(EmptyData),
                                                  accountPublicKeys.errors)]
    /\ UNCHANGED <<ledger, closed, pc, call, response, local, tasks, txLog, ret>>

BetOrders_fetchPublicKeys ==
    ScanStep("bet_order", {getProgramAccounts(query.filter)})
\* the outcome accounts of a market come back in any order
MarketOutcomes_fetchPublicKeys ==
    ScanStep("market_outcome", ScanOrders(getProgramAccounts(query.filter)))

BetOrders_fetch ==
    /\ query.phase = "fetch"
    /\ query.kind = "bet_order"
    /\ \E ok \in BOOLEAN :
        query' = [query EXCEPT !.phase = "done",
                               !.commitment = Commitment(query.kind),
                               !.body = BetOrders_fetchBody(query.keys, ok)]
    /\ UNCHANGED <<ledger, closed, pc, call, response, local, tasks, txLog, ret>>

MarketOutcomes_fetch ==
    /\ query.phase = "fetch"
    /\ query.kind = "market_outcome"
    /\ \E ok \in BOOLEAN :
        query' = [query EXCEPT !.phase = "done",
                               !.commitment = Commitment(query.kind),
                               !.body = MarketOutcomes_fetchBody(query.keys, ok)]
    /\ UNCHANGED <<ledger, closed, pc, call, response, local, tasks, txLog, ret>>

\* getMarketMatchingPoolAccounts(program, pdas): one batch fetch
getMarketMatchingPoolAccounts_fetch ==
    /\ query.phase = "fetch"
    /\ query.kind = "matching_pool"
    /\ \E ok \in BOOLEAN :
        query' = [query EXCEPT !.phase = "done",
                               !.commitment = Commitment(query.kind),
                    !.body = getMarketMatchingPoolAccounts_body(
                                query.keys.data.publicKeys, ok)]
    /\ UNCHANGED <<ledger, closed, pc, call, response, local, tasks, txLog, ret>>

\* getMarketOutcomeAccounts after findMarketOutcomeAccountPDAs
getMarketOutcomeAccounts_fetch ==
    /\ query.phase = "fetch"
    /\ query.kind = "outcome_accounts"
    /\ \E ok \in BOOLEAN :
        query' = [query EXCEPT !.phase = "done",
                               !.commitment = Commitment(query.kind),
                    !.body = getMarketOutcomeAccounts_fetchBody(query.keys, ok)]
    /\ UNCHANGED <<ledger, closed, pc, call, response, local, tasks, txLog, ret>>

\* the addresses a pending batch fetch is about to read
RequestedAddresses ==
    IF query.kind = "outcome_accounts"
    THEN LET list == query.keys.data.marketOutcomePDAs
         IN [i \in {j \in 1..Len(list) : Has(list[j].data, "pda")} |-> list[i].data.pda]
    ELSE query.keys.data.publicKeys
PendingAddresses ==
    IF query.phase = "fetch"
    THEN {RequestedAddresses[i] : i \in DOMAIN RequestedAddresses}
    ELSE {}

\* the environment closes an account between the scan and the batch fetch
\* the same for the queries of a fan-out, which run side by side
TaskPendingAddresses ==
    IF call.op = "getBetOrdersByEventForProviderWallet"
    THEN UNION {SeqToSet(tasks[i].keys.data.publicKeys) :
                    i \in {j \in DOMAIN tasks : tasks[j].phase = "fetch"}}
    ELSE {}

CloseAccount ==
    /\ \E pk \in PendingAddresses \cup TaskPendingAddresses :
        /\ AccountExists(pk)
        /\ closed' = closed \cup {pk}
    /\ UNCHANGED <<ledger, pc, call, response, query, local, tasks, txLog, ret>>

(***************************************************************************)
(* Preset queries.                                                         *)
(***************************************************************************)
getBetOrdersByStatusForProviderWallet ==
    /\ pc = "idle"
    /\ \E status \in {Open, Matched, SettledWin, SettledLose, Cancelled} :
        /\ call' = [op |-> "getBetOrdersByStatusForProviderWallet", status |-> status]
        /\ query' = NewQuery("bet_order",
                        BetOrders_filterByStatus(
                            BetOrders_filterByPurchaser(BetOrdersNew, ProviderWallet),
                            status))
    /\ pc' = "presetFetch"
    /\ UNCHANGED <<ledger, closed, response, local, tasks, txLog, ret>>

getBetOrdersByMarketForProviderWallet ==
    /\ pc = "idle"
    /\ \E marketPk \in MarketPks :
        /\ call' = [op |-> "getBetOrdersByMarketForProviderWallet", marketPk |-> marketPk]
        /\ query' = NewQuery("bet_order",
                        BetOrders_filterByMarket(
                            BetOrders_filterByPurchaser(BetOrdersNew, ProviderWallet),
                            marketPk))
    /\ pc' = "presetFetch"
    /\ UNCHANGED <<ledger, closed, response, local, tasks, txLog, ret>>

getMarketOutcomesByMarket ==
    /\ pc = "idle"
    /\ \E marketPk \in MarketPks :
        /\ call' = [op |-> "getMarketOutcomesByMarket", marketPk |-> marketPk]
        /\ query' = NewQuery("market_outcome",
                        MarketOutcomes_filterByMarket(MarketOutcomesNew, marketPk))
    /\ pc' = "presetFetch"
    /\ UNCHANGED <<ledger, closed, response, local, tasks, txLog, ret>>

\* inputs of the batch fetches by address list
PoolAddressLists ==
    { <<MarketMatchingPoolPk(M1, TitleA, 15000, TRUE),
        MarketMatchingPoolPk(M1, TitleB, 20000, FALSE)>>,
      <<MarketMatchingPoolPk(M1, TitleA, 20000, TRUE),
        MarketMatchingPoolPk(M1, TitleB, 20000, FALSE)>>,
      <<>> }
OutcomeTitleLists == { <<TitleA, TitleB>>, <<TitleB, TitleC>> }

getMarketMatchingPoolAccounts ==
    /\ pc = "idle"
    /\ \E pdas \in PoolAddressLists :
        /\ call' = [op |-> "getMarketMatchingPoolAccounts", marketMatchingPoolPDAs |-> pdas]
        /\ query' = [NoQuery EXCEPT !.kind = "matching_pool", !.phase = "fetch",
                        !.keys = addResponseData(@, [publicKeys |-> pdas])]
    /\ pc' = "presetFetch"
    /\ UNCHANGED <<ledger, closed, response, local, tasks, txLog, ret>>

getMarketOutcomeAccounts ==
    /\ pc = "idle"
    /\ \E marketOutcomes \in OutcomeTitleLists :
       \E failed \in SUBSET (1..Len(marketOutcomes)) :
        LET marketOutcomePDAs == findMarketOutcomeAccountPDAs(M1, marketOutcomes, failed)
        IN /\ call' = [op |-> "getMarketOutcomeAccounts", marketPk |-> M1,
                       marketOutcomes |-> marketOutcomes]
           /\ query' =
                IF marketOutcomePDAs.success
                THEN [NoQuery EXCEPT !.kind = "outcome_accounts", !.phase = "fetch",
                                     !.keys = marketOutcomePDAs]
                ELSE [NoQuery EXCEPT !.kind = "outcome_accounts", !.phase = "done",
                                     !.keys = marketOutcomePDAs,
                                     !.body = addErrors(@, marketOutcomePDAs.errors)]
    /\ pc' = "presetFetch"
    /\ UNCHANGED <<ledger, closed, response, local, tasks, txLog, ret>>

\* return await <query>.fetch()
PresetReturn ==
    /\ pc = "presetFetch"
    /\ query.phase = "done"
    /\ pc' = "done"
    /\ ret' = Returned(query.body)
    /\ UNCHANGED <<ledger, closed, call, response, query, local, tasks, txLog>>

(***************************************************************************)
(* Cancellable bet orders and cancellation.                                *)
(***************************************************************************)
Reject(e) ==
    /\ ret' = Rejected(e)
    /\ pc' = "done"
Return(v) ==
    /\ ret' = Returned(v)
    /\ pc' = "done"

CancellableQuery(marketPk) ==
    NewQuery("bet_order",
        BetOrders_filterByMarket(
            BetOrders_filterByPurchaser(BetOrdersNew, ProviderWallet), marketPk))

getCancellableBetOrdersByMarketForProviderWallet ==
    /\ pc = "idle"
    /\ \E marketPk \in MarketPks :
        /\ call' = [op |-> "getCancellableBetOrdersByMarketForProviderWallet",
                    marketPk |-> marketPk]
        /\ query' = CancellableQuery(marketPk)
    /\ pc' = "cancellable:fetch"
    /\ UNCHANGED <<ledger, closed, response, local, tasks, txLog, ret>>

\* betOrders.data.betOrderAccounts.filter(...) throws on a failed fetch
getCancellableBetOrdersByMarketForProviderWallet_filter ==
    /\ pc = "cancellable:fetch"
    /\ query.phase = "done"
    /\ IF Has(query.body.data, "betOrderAccounts")
       THEN Return(Cancellable(query.body))
       ELSE Reject(TypeError("betOrderAccounts is undefined"))
    /\ UNCHANGED <<ledger, closed, call, response, query, local, tasks, txLog>>

\* cancelBetOrder up to the submission: the order, its market, the lookups
cancelBetOrder ==
    /\ pc = "idle"
    /\ \E betOrderPk \in BetOrderPks :
       \E orderOk, marketOk, deriveOk, escrowOk, tokenOk \in BOOLEAN :
        LET betOrderResponse == getBetOrder(betOrderPk, orderOk)
            betOrder == betOrderResponse.data.account
            marketResponse == getMarket(betOrder.market, marketOk)
            market == marketResponse.data.account
            lookups == [marketPositionPda |->
                            findMarketPositionPda(betOrder.market, ProviderWallet),
                        escrowPda |-> findEscrowPda(betOrder.market, escrowOk),
                        purchaserTokenAccount |->
                            getWalletTokenAccount(market.mintAccount, tokenOk)]
            marketMatchingPool ==
                findMarketMatchingPoolPda(betOrder.market,
                    market.marketOutcomes[betOrder.marketOutcomeIndex + 1],
                    betOrder.expectedOdds, betOrder.backing)
        IN /\ call' = [op |-> "cancelBetOrder", betOrderPk |-> betOrderPk]
           /\ IF ~Has(betOrderResponse.data, "account")
              THEN Reject(TypeError("betOrder is undefined")) /\ UNCHANGED local
              ELSE IF ~Has(marketResponse.data, "account")
              THEN Reject(TypeError("market is undefined")) /\ UNCHANGED local
              ELSE IF ~deriveOk
              THEN Reject(RemoteError("findProgramAddress")) /\ UNCHANGED local
              ELSE /\ local' = [accounts |->
                                    CancelBetAccounts(betOrderPk, betOrder, market,
                                                      lookups, marketMatchingPool)]
                   /\ pc' = "cancelBetOrder:rpc"
                   /\ UNCHANGED ret
    /\ UNCHANGED <<ledger, closed, response, query, tasks, txLog>>

\* the cancelBet transaction settles
cancelBetOrder_rpc ==
    /\ pc = "cancelBetOrder:rpc"
    /\ \E rpcOk \in BOOLEAN :
        LET ok == rpcOk /\ AccountsResolved(local.accounts)
            r == cancelBetOrder_settle(response, call.betOrderPk, ok,
                                       TxSignature(Len(txLog) + 1))
        IN /\ txLog' = Append(txLog, [instruction |-> "cancelBet",
                                      accounts |-> local.accounts, ok |-> ok])
           /\ response' = r
           /\ Return(r)
    /\ UNCHANGED <<ledger, closed, call, query, local, tasks>>

\* cancelBetOrdersForMarket up to the query for the cancellable orders
cancelBetOrdersForMarket ==
    /\ pc = "idle"
    /\ \E marketPk \in MarketPks :
       \E marketOk, deriveOk, escrowOk, tokenOk \in BOOLEAN :
        LET marketResponse == getMarket(marketPk, marketOk)
            market == marketResponse.data.account
        IN /\ call' = [op |-> "cancelBetOrdersForMarket", marketPk |-> marketPk]
           /\ IF ~Has(marketResponse.data, "account")
              THEN Reject(TypeError("market is undefined")) /\ UNCHANGED <<local, query>>
              ELSE IF ~deriveOk
              THEN Reject(RemoteError("findProgramAddress")) /\ UNCHANGED <<local, query>>
              ELSE /\ local' = [market |-> market,
                                marketPositionPda |->
                                    findMarketPositionPda(marketPk, ProviderWallet),
                                escrowPda |-> findEscrowPda(marketPk, escrowOk),
                                purchaserTokenAccount |->
                                    getWalletTokenAccount(market.mintAccount, tokenOk)]
                   /\ query' = CancellableQuery(marketPk)
                   /\ pc' = "cancelAll:cancellable"
                   /\ UNCHANGED ret
    /\ UNCHANGED <<ledger, closed, response, tasks, txLog>>

\* the cancellable set arrives: none is the fixed error, otherwise one callback
\* per order is started
cancelBetOrdersForMarket_cancellable ==
    /\ pc = "cancelAll:cancellable"
    /\ query.phase = "done"
    /\ IF ~Has(query.body.data, "betOrderAccounts")
       THEN /\ Reject(TypeError("betOrderAccounts is undefined"))
            /\ UNCHANGED <<response, local, tasks>>
       ELSE LET betOrders == Cancellable(query.body).data.betOrderAccounts
            IN IF NoOrders(betOrders)
               THEN /\ response' = addError(response, NoCancellableBetOrdersFound)
                    /\ Return(response')
                    /\ UNCHANGED <<local, tasks>>
               ELSE /\ local' = [betOrders |-> betOrders] @@ local
                    /\ tasks' = [i \in 1..Len(betOrders) |->
                                    [state |-> "derive",
                                     marketMatchingPool |-> ResponseFactory(EmptyData),
                                     result |-> Null]]
                    /\ pc' = "cancelAll:fanout"
                    /\ UNCHANGED <<response, ret>>
    /\ UNCHANGED <<ledger, closed, call, query, txLog>>

\* one callback's await findMarketMatchingPoolPda; a throw rejects the callback
\* and with it Promise.all, while the other callbacks run on
cancelBetOrdersForMarket_derive ==
    /\ pc = "cancelAll:fanout"
    /\ \E i \in DOMAIN tasks : \E deriveOk \in BOOLEAN :
        LET bet == local.betOrders[i]
        IN /\ tasks[i].state = "derive"
           /\ IF deriveOk
              THEN /\ tasks' = [tasks EXCEPT
                        ![i].state = "submit",
                        ![i].marketMatchingPool =
                            findMarketMatchingPoolPda(bet.account.market,
                                local.market.marketOutcomes[bet.account.marketOutcomeIndex + 1],
                                bet.account.expectedOdds, bet.account.backing)]
                   /\ UNCHANGED ret
              ELSE /\ tasks' = [tasks EXCEPT ![i].state = "threw"]
                   /\ ret' = IF ret.kind = "pending"
                             THEN Rejected(RemoteError("findProgramAddress")) ELSE ret
    /\ UNCHANGED <<ledger, closed, pc, call, response, query, local, txLog>>

\* one callback's cancelBet transaction settles
cancelBetOrdersForMarket_rpc ==
    /\ pc = "cancelAll:fanout"
    /\ \E i \in DOMAIN tasks : \E rpcOk \in BOOLEAN :
        LET bet == local.betOrders[i]
            accounts == CancelBetAccounts(bet.publicKey, bet.account, local.market,
                                          local, tasks[i].marketMatchingPool)
            ok == rpcOk /\ AccountsResolved(accounts)
        IN /\ tasks[i].state = "submit"
           /\ txLog' = Append(txLog, [instruction |-> "cancelBet",
                                      accounts |-> accounts, ok |-> ok])
           /\ response' = IF ok THEN response
                          ELSE addError(response, TxError("cancelBet", bet.publicKey))
           /\ tasks' = [tasks EXCEPT
                ![i].state = "settled",
                ![i].result = cancelBetOrdersForMarket_result(
                                bet.publicKey, ok, TxSignature(Len(txLog) + 1))]
    /\ UNCHANGED <<ledger, closed, pc, call, query, local, ret>>

\* Promise.all resolves once every callback has resolved
cancelBetOrdersForMarket_join ==
    /\ pc = "cancelAll:fanout"
    /\ ret.kind = "pending"
    /\ \A i \in DOMAIN tasks : tasks[i].state = "settled"
    /\ response' = addResponseData(response,
            cancelBetOrdersForMarket_partition([i \in DOMAIN tasks |-> tasks[i].result]))
    /\ Return(response')
    /\ UNCHANGED <<ledger, closed, call, query, local, tasks, txLog>>

(***************************************************************************)
(* Market prices.                                                          *)
(***************************************************************************)
\* matched orders with a remainder still to match
partiallyMatched_all(betOrderAccounts) == betOrderAccounts
partiallyMatched(betOrderAccounts) ==
    SelectSeq(betOrderAccounts, LAMBDA betOrder : betOrder.account.stakeUnmatched > 0)

\* the price point of each pending order, serialized into the set, parsed back
MarketPricesOf(pendingBetOrders, market) ==
    LET price(i) ==
            LET account == pendingBetOrders[i].account
            IN [marketOutcome |->
                    market.data.account.marketOutcomes[account.marketOutcomeIndex + 1],
                odds |-> account.expectedOdds,
                backing |-> account.backing]
        marketPricesSet ==
            SetAddAll(<<>>, [i \in 1..Len(pendingBetOrders) |-> JsonStringify(price(i))])
    IN [i \in 1..Len(marketPricesSet) |-> JsonParse(marketPricesSet[i])]

\* each price gets the address of its matching pool
WithMatchingPoolPda(marketPrices, market) ==
    [i \in 1..Len(marketPrices) |->
        [matchingPoolPda |->
            findMarketMatchingPoolPda(market.data.publicKey, marketPrices[i].marketOutcome,
                marketPrices[i].odds, marketPrices[i].backing).data.pda]
        @@ marketPrices[i]]

\* each price gets the pool account fetched for its address, when there is one;
\* the accounts carry the PublicKey objects the prices hold
WithMatchingPool_first(marketPrices, marketMatchingPools) ==
    [i \in 1..Len(marketPrices) |->
        IF marketMatchingPools = <<>> THEN marketPrices[i]
        ELSE [matchingPool |-> marketMatchingPools[1].account] @@ marketPrices[i]]
WithMatchingPool(marketPrices, marketMatchingPools) ==
    [i \in 1..Len(marketPrices) |->
        LET found == {j \in 1..Len(marketMatchingPools) :
                        marketMatchingPools[j].publicKey = marketPrices[i].matchingPoolPda}
        IN IF found = {} THEN marketPrices[i]
           ELSE [matchingPool |->
                    marketMatchingPools[CHOOSE j \in found : \A k \in found : j <= k].account]
                @@ marketPrices[i]]

\* the orders in which the callbacks of a fan-out over n items may complete
CompletionOrders(n) ==
    {order \in [1..n -> 1..n] : \A i \in 1..n : \E j \in 1..n : order[j] = i}

\* the addresses pushed by the derivation callbacks, in completion order
marketMatchingPoolPdas(priced, completed) ==
    [k \in 1..Len(priced) |-> priced[completed[k]].matchingPoolPda]

MarketBetOrdersQuery(marketPk, status) ==
    NewQuery("bet_order",
        BetOrders_filterByStatus(BetOrders_filterByMarket(BetOrdersNew, marketPk), status))

\* getMarketPrices: the three fetches are awaited one after the other; first the
\* market's matched orders
getMarketPrices ==
    /\ pc = "idle"
    /\ \E marketPk \in MarketPks :
        /\ call' = [op |-> "getMarketPrices", marketPk |-> marketPk]
        /\ query' = MarketBetOrdersQuery(marketPk, Matched)
    /\ pc' = "prices:matched"
    /\ UNCHANGED <<ledger, closed, response, local, tasks, txLog, ret>>

\* then the market's open orders
getMarketPrices_matched ==
    /\ pc = "prices:matched"
    /\ query.phase = "done"
    /\ local' = [matchedBetOrders |-> query.body]
    /\ query' = MarketBetOrdersQuery(call.marketPk, Open)
    /\ pc' = "prices:open"
    /\ UNCHANGED <<ledger, closed, call, response, tasks, txLog, ret>>

\* then the market; any failure returns the errors, otherwise the pending
\* orders, their distinct prices and the pool addresses are worked out
getMarketPrices_open ==
    /\ pc = "prices:open"
    /\ query.phase = "done"
    /\ \E marketOk, deriveOk \in BOOLEAN :
        LET matchedBetOrders == local.matchedBetOrders
            openBetOrders == query.body
            market == getMarket(call.marketPk, marketOk)
            partiallyMatchedBetOrders ==
                partiallyMatched(matchedBetOrders.data.betOrderAccounts)
            pendingBetOrders ==
                partiallyMatchedBetOrders \o openBetOrders.data.betOrderAccounts
            marketPrices == MarketPricesOf(pendingBetOrders, market)
        IN IF ~matchedBetOrders.success \/ ~openBetOrders.success \/ ~market.success
           THEN /\ response' = addErrors(addErrors(addErrors(response,
                                    matchedBetOrders.errors), openBetOrders.errors),
                                    market.errors)
                /\ Return(response')
                /\ UNCHANGED <<local, query>>
           ELSE IF ~deriveOk /\ marketPrices # <<>>
           THEN /\ Reject(RemoteError("findProgramAddress"))
                /\ UNCHANGED <<response, local, query>>
           ELSE LET priced == WithMatchingPoolPda(marketPrices, market)
                IN \E completed \in CompletionOrders(Len(priced)) :
                   /\ local' = [market |-> market, pendingBetOrders |-> pendingBetOrders,
                                marketPrices |-> priced]
                   /\ query' = [NoQuery EXCEPT !.kind = "matching_pool", !.phase = "fetch",
                                    !.keys = addResponseData(@,
                                        [publicKeys |->
                                            marketMatchingPoolPdas(priced, completed)])]
                   /\ pc' = "prices:pools"
                   /\ UNCHANGED <<response, ret>>
    /\ UNCHANGED <<ledger, closed, call, tasks, txLog>>

\* the pool accounts arrive and are attached to their prices
getMarketPrices_pools ==
    /\ pc = "prices:pools"
    /\ query.phase = "done"
    /\ LET marketMatchingPoolAccounts == query.body
       IN response' =
            IF ~marketMatchingPoolAccounts.success
            THEN addErrors(response, marketMatchingPoolAccounts.errors)
            ELSE addResponseData(response,
                    [market |-> local.market.data.account,
                     pendingBetOrders |-> local.pendingBetOrders,
                     marketPrices |->
                        WithMatchingPool(local.marketPrices,
                            marketMatchingPoolAccounts.data.marketMatchingPools)])
    /\ Return(response')
    /\ UNCHANGED <<ledger, closed, call, query, local, tasks, txLog>>

(***************************************************************************)
(* getMarkets: one getMarket per key, side by side.  A callback returns    *)
(* the market's data, or adds the errors and returns undefined;            *)
(* local.completed lists the callbacks in the order they completed.        *)
(***************************************************************************)
MarketPkLists == UNION {[1..n -> MarketPks] : n \in 0..2}

getMarkets_markets_completionOrder(settled, completed) ==
    [k \in 1..Len(completed) |-> settled[completed[k]].value]
\* Promise.all: the callbacks' values in the order of the input
getMarkets_markets(settled, completed) ==
    [i \in 1..Len(settled) |-> settled[i].value]

getMarkets ==
    /\ pc = "idle"
    /\ \E marketPks \in MarketPkLists :
        /\ call' = [op |-> "getMarkets", marketPks |-> marketPks]
        /\ tasks' = [i \in 1..Len(marketPks) |->
                        [marketPk |-> marketPks[i], phase |-> "fetch",
                         success |-> FALSE, value |-> Undefined]]
    /\ local' = [completed |-> <<>>]
    /\ pc' = "markets:fanout"
    /\ UNCHANGED <<ledger, closed, response, query, txLog, ret>>

getMarkets_callback ==
    /\ pc = "markets:fanout"
    /\ \E i \in DOMAIN tasks : \E ok \in BOOLEAN :
        LET market == getMarket(tasks[i].marketPk, ok)
        IN /\ tasks[i].phase = "fetch"
           /\ tasks' = [tasks EXCEPT ![i] =
                            [marketPk |-> tasks[i].marketPk, phase |-> "done",
                             success |-> market.success,
                             value |-> IF market.success THEN market.data
                                       ELSE Undefined]]
           /\ response' = IF market.success THEN response
                          ELSE addErrors(response, market.errors)
           /\ local' = [local EXCEPT !.completed = Append(@, i)]
    /\ UNCHANGED <<ledger, closed, pc, call, query, txLog, ret>>

getMarkets_join ==
    /\ pc = "markets:fanout"
    /\ \A i \in DOMAIN tasks : tasks[i].phase = "done"
    /\ response' = addResponseData(response,
                        [markets |-> getMarkets_markets(tasks, local.completed)])
    /\ Return(response')
    /\ UNCHANGED <<ledger, closed, call, query, local, tasks, txLog>>

(***************************************************************************)
(* Bet orders of an event.                                                 *)
(***************************************************************************)
E1 == <<"e1">>
E2 == <<"e2">>
EventPks == {E1, E2}
\* the markets whose eventAccount is the event, in scan order
EventMarkets(eventPk) == IF eventPk = E1 THEN <<M1, M2>> ELSE <<>>
\* market_query Markets.marketQuery(program).filterByEvent(eventPk).fetch()
Markets_fetch(eventPk, ok) ==
    LET r == ResponseFactory(EmptyData)
        marketPks == EventMarkets(eventPk)
    IN IF ok
       THEN addResponseData(r,
                [markets |-> [i \in 1..Len(marketPks) |->
                                [publicKey |-> marketPks[i],
                                 account |-> MarketAccount(marketPks[i])]]])
       ELSE addError(r, RemoteError("markets.fetch"))

\* one market's callback after its query: the orders are pushed on success
getBetOrdersByEvent_push_failFast(betOrderAccounts, betOrderResponse) ==
    IF betOrderResponse.success
    THEN betOrderAccounts \o betOrderResponse.data.betOrderAccounts
    ELSE <<>>
getBetOrdersByEvent_push(betOrderAccounts, betOrderResponse) ==
    IF betOrderResponse.success
    THEN betOrderAccounts \o betOrderResponse.data.betOrderAccounts
    ELSE betOrderAccounts
\* and the errors are added otherwise
getBetOrdersByEvent_errors(r, betOrderResponse) ==
    IF betOrderResponse.success THEN r ELSE addErrors(r, betOrderResponse.errors)

\* the market scan; a failure returns its errors, otherwise one query per market
getBetOrdersByEventForProviderWallet ==
    /\ pc = "idle"
    /\ \E eventPk \in EventPks, ok \in BOOLEAN :
        LET marketPks == Markets_fetch(eventPk, ok)
        IN /\ call' = [op |-> "getBetOrdersByEventForProviderWallet", eventPk |-> eventPk]
           /\ IF ~marketPks.success
              THEN /\ response' = addErrors(response, marketPks.errors)
                   /\ Return(response')
                   /\ UNCHANGED <<local, tasks>>
              ELSE /\ local' = [markets |-> marketPks.data.markets,
                                betOrderAccounts |-> <<>>]
                   /\ tasks' = [i \in 1..Len(marketPks.data.markets) |->
                                    NewQuery("bet_order",
                                        BetOrders_filterByMarket(
                                            BetOrders_filterByPurchaser(BetOrdersNew,
                                                                        ProviderWallet),
                                            marketPks.data.markets[i].publicKey))]
                   /\ pc' = "event:fanout"
                   /\ UNCHANGED <<response, ret>>
    /\ UNCHANGED <<ledger, closed, query, txLog>>

\* a callback's query has its answer: push or add the errors
EventCallback(i, betOrderResponse) ==
    /\ local' = [local EXCEPT !.betOrderAccounts =
                    getBetOrdersByEvent_push(@, betOrderResponse)]
    /\ response' = getBetOrdersByEvent_errors(response, betOrderResponse)

\* one market's address scan
getBetOrdersByEvent_fetchPublicKeys ==
    /\ pc = "event:fanout"
    /\ \E i \in DOMAIN tasks : \E ok \in BOOLEAN :
        LET accountPublicKeys == fetchPublicKeys(tasks[i].filter, ok)
            failed == addErrors(ResponseFactory(EmptyData), accountPublicKeys.errors)
        IN /\ tasks[i].phase = "scan"
           /\ IF accountPublicKeys.success
              THEN /\ tasks' = [tasks EXCEPT ![i].keys = accountPublicKeys,
                                             ![i].phase = "fetch"]
                   /\ UNCHANGED <<local, response>>
              ELSE /\ tasks' = [tasks EXCEPT ![i].keys = accountPublicKeys,
                                             ![i].phase = "done", ![i].body = failed]
                   /\ EventCallback(i, failed)
    /\ UNCHANGED <<ledger, closed, pc, call, query, txLog, ret>>

\* one market's batch fetch
getBetOrdersByEvent_fetch ==
    /\ pc = "event:fanout"
    /\ \E i \in DOMAIN tasks : \E ok \in BOOLEAN :
        LET betOrderResponse == BetOrders_fetchBody(tasks[i].keys, ok)
        IN /\ tasks[i].phase = "fetch"
           /\ tasks' = [tasks EXCEPT ![i].phase = "done", ![i].body = betOrderResponse]
           /\ EventCallback(i, betOrderResponse)
    /\ UNCHANGED <<ledger, closed, pc, call, query, txLog, ret>>

\* Promise.all resolves: the collected orders are the response data
getBetOrdersByEvent_join ==
    /\ pc = "event:fanout"
    /\ \A i \in DOMAIN tasks : tasks[i].phase = "done"
    /\ response' = addResponseData(response,
                        [betOrderAccounts |-> local.betOrderAccounts])
    /\ Return(response')
    /\ UNCHANGED <<ledger, closed, call, query, local, tasks, txLog>>

(***************************************************************************)
(* Market position.                                                        *)
(***************************************************************************)
BN(n) == <<"BN", n>>
\* the marketOutcomeSums a market position account may hold; the program that
\* writes the account and the client may disagree on the number of outcomes
MarketPositionSums ==
    { <<BN(10), BN(20)>>, <<BN(20), BN(20)>>, <<BN(10)>>, <<BN(10), BN(20), BN(30)>> }
MarketPosition(purchaserPk, marketPk, sums) ==
    [purchaser |-> purchaserPk, market |-> marketPk, marketOutcomeSums |-> sums]

\* the Map filled by market.marketOutcomes.forEach((marketOutcome, index) => set(...))
outcomePositions_shifted(marketOutcomes, marketOutcomeSums) ==
    [marketOutcome \in {marketOutcomes[i] : i \in 1..Len(marketOutcomes)} |->
        LET index == CHOOSE i \in 1..Len(marketOutcomes) :
                        /\ marketOutcomes[i] = marketOutcome
                        /\ \A j \in 1..Len(marketOutcomes) :
                            marketOutcomes[j] = marketOutcome => j <= i
        IN IF index + 1 <= Len(marketOutcomeSums)
           THEN marketOutcomeSums[index + 1] ELSE Undefined]
outcomePositions(marketOutcomes, marketOutcomeSums) ==
    [marketOutcome \in {marketOutcomes[i] : i \in 1..Len(marketOutcomes)} |->
        LET index == CHOOSE i \in 1..Len(marketOutcomes) :
                        /\ marketOutcomes[i] = marketOutcome
                        /\ \A j \in 1..Len(marketOutcomes) :
                            marketOutcomes[j] = marketOutcome => j <= i
        IN IF index <= Len(marketOutcomeSums)
           THEN marketOutcomeSums[index] ELSE Undefined]

\* getMarketPosition: the two fetches and the derivation are inside the try
getMarketPosition_body(marketPk, purchaserPk, account, failure) ==
    LET r == ResponseFactory(EmptyData)
        market == MarketAccount(marketPk)
    IN IF failure # "none"
       THEN addError(r, RemoteError(failure))
       ELSE addResponseData(r,
                [outcomePositions |->
                    outcomePositions(market.marketOutcomes, account.marketOutcomeSums)]
                @@ account)

\* the remote reads the try block issues, in order: each is awaited before the
\* next, and a throw leaves the block
getMarketPosition_requests_both(failure) == <<"market.fetch", "marketPosition.fetch">>
getMarketPosition_requests(failure) ==
    IF failure \in {"market.fetch", "findProgramAddress"}
    THEN <<"market.fetch">>
    ELSE <<"market.fetch", "marketPosition.fetch">>

getMarketPosition ==
    /\ pc = "idle"
    /\ \E marketPk \in MarketPks, purchaserPk \in Wallets, sums \in MarketPositionSums :
       \E failure \in {"none", "market.fetch", "findProgramAddress", "marketPosition.fetch"} :
        LET account == MarketPosition(purchaserPk, marketPk, sums)
            r == getMarketPosition_body(marketPk, purchaserPk, account, failure)
        IN /\ call' = [op |-> "getMarketPosition", marketPk |-> marketPk,
                       purchaserPk |-> purchaserPk, failure |-> failure]
           /\ local' = [marketPosition |-> account,
                        requests |-> getMarketPosition_requests(failure)]
           /\ response' = r
           /\ Return(r)
    /\ UNCHANGED <<ledger, closed, query, tasks, txLog>>

(***************************************************************************)
(* Bet order creation and market outcome titles.                           *)
(***************************************************************************)
\* createBetOrder up to the submission
createBetOrder_body(clock) ==
    /\ \E marketPk \in MarketPks, now \in clock..MaxClock :
       \E accountsOk, tokenOk, deriveOk \in BOOLEAN :
        LET marketOutcomeIndex == 0
            backing == TRUE
            odds == 15000
            MarketAccounts == getMarketAccounts(marketPk, backing, marketOutcomeIndex,
                                                odds, accountsOk)
            purchaserTokenAccount ==
                getWalletTokenAccount(MarketAccounts.data.market.mintAccount, tokenOk)
            betOrderPdaResponse == findBetOrderPda(marketPk, ProviderWallet, now, deriveOk)
        IN /\ call' = [op |-> "createBetOrder", marketPk |-> marketPk,
                       marketOutcomeIndex |-> marketOutcomeIndex, backing |-> backing,
                       odds |-> odds, stake |-> 5, now |-> now]
           /\ response' = ResponseFactory(EmptyData)
           /\ IF ~Has(MarketAccounts.data, "market")
              THEN Reject(TypeError("market is undefined")) /\ UNCHANGED local
              ELSE /\ local' =
                        [distinctSeed |-> Get(betOrderPdaResponse.data, "distinctSeed"),
                         accounts |->
                            [purchaser |-> ProviderWallet,
                             betOrder |-> Get(betOrderPdaResponse.data, "betOrderPk"),
                             marketPosition |-> MarketAccounts.data.marketPositionPda,
                             market |-> marketPk,
                             marketMatchingPool |-> MarketAccounts.data.marketOutcomePoolPda,
                             marketOutcome |-> MarketAccounts.data.marketOutcomePda,
                             purchaserToken |->
                                Get(purchaserTokenAccount.data, "associatedTokenAccount"),
                             marketEscrow |-> MarketAccounts.data.escrowPda]]
                   /\ pc' = "createBetOrder:rpc"
                   /\ ret' = Pending
    /\ UNCHANGED <<ledger, closed, query, tasks, txLog>>

createBetOrder ==
    /\ pc = "idle"
    /\ createBetOrder_body(1)

\* a further call after the previous one has finished; the clock does not
\* run backwards
createBetOrder_again ==
    /\ pc = "done"
    /\ call.op = "createBetOrder"
    /\ Len(txLog) < MaxCalls
    /\ createBetOrder_body(call.now)

\* a bet order account is created once: a createBet for an address that an
\* earlier createBet of the log initialized fails
BetOrderInitialized(betOrderPk) ==
    \E k \in 1..Len(txLog) :
        /\ txLog[k].instruction = "createBet"
        /\ txLog[k].ok
        /\ txLog[k].accounts.betOrder = betOrderPk

\* the createBet transaction settles
createBetOrder_rpc ==
    /\ pc = "createBetOrder:rpc"
    /\ \E rpcOk \in BOOLEAN :
        LET ok == /\ rpcOk
                  /\ AccountsResolved(local.accounts)
                  /\ ~BetOrderInitialized(local.accounts.betOrder)
            r == createBetOrder_settle(response, local.accounts.betOrder, ok,
                                       TxSignature(Len(txLog) + 1))
        IN /\ txLog' = Append(txLog, [instruction |-> "createBet",
                                      distinctSeed |-> local.distinctSeed,
                                      accounts |-> local.accounts, ok |-> ok])
           /\ response' = r
           /\ Return(r)
    /\ UNCHANGED <<ledger, closed, call, query, local, tasks>>

getMarketOutcomeTitlesByMarket ==
    /\ pc = "idle"
    /\ \E marketPk \in MarketPks :
        /\ call' = [op |-> "getMarketOutcomeTitlesByMarket", marketPk |-> marketPk]
        /\ query' = NewQuery("market_outcome",
                        MarketOutcomes_filterByMarket(MarketOutcomesNew, marketPk))
    /\ pc' = "titles:fetch"
    /\ UNCHANGED <<ledger, closed, response, local, tasks, txLog, ret>>

\* marketOutcomeAccounts.forEach(...) throws on a failed fetch
getMarketOutcomeTitlesByMarket_collect ==
    /\ pc = "titles:fetch"
    /\ query.phase = "done"
    /\ IF Has(query.body.data, "marketOutcomeAccounts")
       THEN Return(OutcomeTitles(query.body.data.marketOutcomeAccounts))
       ELSE Reject(TypeError("marketOutcomeAccounts is undefined"))
    /\ UNCHANGED <<ledger, closed, call, response, query, local, tasks, txLog>>

Next ==
    \/ BetOrders_fetchPublicKeys
    \/ BetOrders_fetch
    \/ MarketOutcomes_fetchPublicKeys
    \/ MarketOutcomes_fetch
    \/ getMarketMatchingPoolAccounts_fetch
    \/ getMarketOutcomeAccounts_fetch
    \/ CloseAccount
    \/ getBetOrdersByStatusForProviderWallet
    \/ getBetOrdersByMarketForProviderWallet
    \/ getMarketOutcomesByMarket
    \/ getMarketMatchingPoolAccounts
    \/ getMarketOutcomeAccounts
    \/ PresetReturn
    \/ getCancellableBetOrdersByMarketForProviderWallet
    \/ getCancellableBetOrdersByMarketForProviderWallet_filter
    \/ cancelBetOrder
    \/ cancelBetOrder_rpc
    \/ cancelBetOrdersForMarket
    \/ cancelBetOrdersForMarket_cancellable
    \/ cancelBetOrdersForMarket_derive
    \/ cancelBetOrdersForMarket_rpc
    \/ cancelBetOrdersForMarket_join
    \/ createBetOrder
    \/ createBetOrder_rpc
    \/ getMarketOutcomeTitlesByMarket
    \/ getMarketOutcomeTitlesByMarket_collect
    \/ getMarketPrices
    \/ getMarketPrices_matched
    \/ getMarketPrices_open
    \/ getMarketPrices_pools
    \/ getMarketPosition
    \/ getBetOrdersByEventForProviderWallet
    \/ getBetOrdersByEvent_fetchPublicKeys
    \/ getBetOrdersByEvent_fetch
    \/ getBetOrdersByEvent_join
    \/ getMarkets
    \/ getMarkets_callback
    \/ getMarkets_join

Spec == Init /\ [][Next]_vars

(***************************************************************************)
(* The address derivations on their own: each is applied to two seed       *)
(* tuples.  Titles ending in a digit and odds beyond the third decimal are *)
(* among the inputs.                                                       *)
(***************************************************************************)
PdaTitles == {<<"1">>, <<"1", "1">>, TitleA}
PdaOdds == {15000, 15001, 12500, 115000}
MarketOutcomeTuples ==
    [marketPk : MarketPks, marketOutcome : PdaTitles]
MarketPositionTuples ==
    [marketPk : MarketPks, purchaserPk : Wallets]
MarketMatchingPoolTuples ==
    [marketPk : MarketPks, marketOutcome : PdaTitles, odds : PdaOdds, backing : BOOLEAN]

InitPda ==
    /\ ledger = [pk \in BetOrderPks |-> BetOrder(ProviderWallet, M1, Open, 5, PriceA)]
    /\ closed = {}
    /\ pc = "idle"
    /\ call = [op |-> "none"]
    /\ response = ResponseFactory(EmptyData)
    /\ query = NoQuery
    /\ local = <<>>
    /\ tasks = <<>>
    /\ txLog = <<>>
    /\ ret = Pending

\* two calls of one derivation, both answers kept
DerivedPair(op, first, second, firstPda, secondPda) ==
    /\ call' = [op |-> op, first |-> first, second |-> second]
    /\ local' = [first |-> firstPda, second |-> secondPda]
    /\ Return(secondPda)
    /\ UNCHANGED <<ledger, closed, response, query, tasks, txLog>>

findMarketOutcomePda_twice ==
    /\ pc = "idle"
    /\ \E first, second \in MarketOutcomeTuples :
         /\ DerivedPair("findMarketOutcomePda", first, second,
                findMarketOutcomePda(first.marketPk, first.marketOutcome, TRUE),
                findMarketOutcomePda(second.marketPk, second.marketOutcome, TRUE))

findMarketPositionPda_twice ==
    /\ pc = "idle"
    /\ \E first, second \in MarketPositionTuples :
         /\ DerivedPair("findMarketPositionPda", first, second,
                findMarketPositionPda(first.marketPk, first.purchaserPk),
                findMarketPositionPda(second.marketPk, second.purchaserPk))

findMarketMatchingPoolPda_twice ==
    /\ pc = "idle"
    /\ \E first, second \in MarketMatchingPoolTuples :
         /\ DerivedPair("findMarketMatchingPoolPda", first, second,
                findMarketMatchingPoolPda(first.marketPk, first.marketOutcome,
                                          first.odds, first.backing),
                findMarketMatchingPoolPda(second.marketPk, second.marketOutcome,
                                          second.odds, second.backing))

NextPda ==
    \/ findMarketOutcomePda_twice
    \/ findMarketPositionPda_twice
    \/ findMarketMatchingPoolPda_twice
SpecPda == InitPda /\ [][NextPda]_vars

(***************************************************************************)
(* The query builders on their own: a builder is constructed and narrowed  *)
(* by any sequence of filterBy* calls.  local holds the object's _filter,  *)
(* call the calls made on it so far.                                       *)
(***************************************************************************)
BetOrderStatusValues == {Open, Matched, SettledWin, SettledLose, Cancelled}

Built(class) ==
    /\ pc = "built"
    /\ call.op = class
    /\ Len(call.calls) < MaxFilters

Narrowed(method, arg, filter) ==
    /\ call' = [call EXCEPT !.calls = Append(@, <<method, arg>>)]
    /\ local' = [_filter |-> filter]
    /\ UNCHANGED <<ledger, closed, pc, response, query, tasks, txLog, ret>>

betOrderQuery ==
    /\ pc = "idle"
    /\ pc' = "built"
    /\ call' = [op |-> "BetOrders", calls |-> <<>>]
    /\ local' = [_filter |-> BetOrdersNew]
    /\ UNCHANGED <<ledger, closed, response, query, tasks, txLog, ret>>

filterByPurchaser ==
    /\ Built("BetOrders")
    /\ \E purchaser \in Wallets :
         Narrowed("filterByPurchaser", purchaser,
                  BetOrders_filterByPurchaser(local._filter, purchaser))

filterByMarket ==
    /\ Built("BetOrders")
    /\ \E market \in MarketPks :
         Narrowed("filterByMarket", market,
                  BetOrders_filterByMarket(local._filter, market))

filterByStatus ==
    /\ Built("BetOrders")
    /\ \E status \in BetOrderStatusValues :
         Narrowed("filterByStatus", <<StatusByte(status)>>,
                  BetOrders_filterByStatus(local._filter, status))

marketOutcomeQuery ==
    /\ pc = "idle"
    /\ pc' = "built"
    /\ call' = [op |-> "MarketOutcomes", calls |-> <<>>]
    /\ local' = [_filter |-> MarketOutcomesNew]
    /\ UNCHANGED <<ledger, closed, response, query, tasks, txLog, ret>>

marketOutcomeQuery_filterByMarket ==
    /\ Built("MarketOutcomes")
    /\ \E market \in MarketPks :
         Narrowed("filterByMarket", market,
                  MarketOutcomes_filterByMarket(local._filter, market))

NextBuilder ==
    \/ betOrderQuery
    \/ filterByPurchaser
    \/ filterByMarket
    \/ filterByStatus
    \/ marketOutcomeQuery
    \/ marketOutcomeQuery_filterByMarket
SpecBuilder == InitPda /\ [][NextBuilder]_vars

(***************************************************************************)
(* createBetOrder called repeatedly by the provider wallet.                *)
(***************************************************************************)
NextCreate ==
    \/ createBetOrder
    \/ createBetOrder_again
    \/ createBetOrder_rpc
SpecCreate == InitPda /\ [][NextCreate]_vars

(***************************************************************************)
(* Public calls running concurrently.  Objects made by `new` live in a     *)
(* heap (local) and a call (an element of tasks) holds references to its   *)
(* query's _filter and to its ResponseFactory; `built` is the envelope as  *)
(* the call's own additions alone make it.  A step runs from one await to  *)
(* the next.                                                               *)
(***************************************************************************)
New_shared(objects, value) ==
    IF objects = <<>> THEN [objects |-> <<value>>, ref |-> 1]
    ELSE [objects |-> objects, ref |-> 1]
\* new X(...): a fresh object
New(objects, value) == [objects |-> Append(objects, value), ref |-> Len(objects) + 1]

InitConcurrent ==
    /\ ledger = [pk \in BetOrderPks |-> BetOrder(ProviderWallet, M1, Open, 5, PriceA)]
    /\ closed = {}
    /\ pc = "idle"
    /\ call = [op |-> "none"]
    /\ response = ResponseFactory(EmptyData)
    /\ query = NoQuery
    /\ local = [filters |-> <<>>, responses |-> <<>>]
    /\ tasks = <<>>
    /\ txLog = <<>>
    /\ ret = Pending

\* getBetOrdersByMarketForProviderWallet(program, marketPk) up to the await of
\* the scan: the builder is made and narrowed, fetch() makes its response
BetOrdersByMarket_call ==
    /\ Len(tasks) < MaxCalls
    /\ \E marketPk \in MarketPks :
        LET q == New(local.filters, BetOrdersNew)
            r == New(local.responses, ResponseFactory(EmptyData))
        IN /\ local' =
                [filters |-> [q.objects EXCEPT ![q.ref] =
                                BetOrders_filterByMarket(
                                    BetOrders_filterByPurchaser(@, ProviderWallet),
                                    marketPk)],
                 responses |-> r.objects]
           /\ tasks' = Append(tasks,
                [marketPk |-> marketPk, pc |-> "scan", query |-> q.ref,
                 response |-> r.ref, keys |-> ResponseFactory(EmptyData),
                 built |-> ResponseFactory(EmptyData)])
    /\ UNCHANGED <<ledger, closed, pc, call, response, query, txLog, ret>>

\* the scan of one call settles
BetOrdersByMarket_fetchPublicKeys ==
    /\ \E c \in DOMAIN tasks : \E ok \in BOOLEAN :
        LET accountPublicKeys == fetchPublicKeys(local.filters[tasks[c].query], ok)
        IN /\ tasks[c].pc = "scan"
           /\ IF accountPublicKeys.success
              THEN /\ tasks' = [tasks EXCEPT ![c].pc = "fetch",
                                             ![c].keys = accountPublicKeys]
                   /\ UNCHANGED local
              ELSE /\ tasks' = [tasks EXCEPT
                        ![c].pc = "done",
                        ![c].built = addErrors(@, accountPublicKeys.errors)]
                   /\ local' = [local EXCEPT !.responses[tasks[c].response] =
                                    addErrors(@, accountPublicKeys.errors)]
    /\ UNCHANGED <<ledger, closed, pc, call, response, query, txLog, ret>>

\* the batch fetch of one call settles
BetOrdersByMarket_fetch ==
    /\ \E c \in DOMAIN tasks : \E ok \in BOOLEAN :
        LET pks == tasks[c].keys.data.publicKeys
            data == [betOrderAccounts |-> BetOrders_dropClosed(pks, fetchMultiple(pks))]
        IN /\ tasks[c].pc = "fetch"
           /\ tasks' = [tasks EXCEPT
                    ![c].pc = "done",
                    ![c].built = IF ok THEN addResponseData(@, data)
                                 ELSE addError(@, RemoteError("fetchMultiple"))]
           /\ local' = [local EXCEPT !.responses[tasks[c].response] =
                            IF ok THEN addResponseData(@, data)
                            ELSE addError(@, RemoteError("fetchMultiple"))]
    /\ UNCHANGED <<ledger, closed, pc, call, response, query, txLog, ret>>

NextConcurrent ==
    \/ BetOrdersByMarket_call
    \/ BetOrdersByMarket_fetchPublicKeys
    \/ BetOrdersByMarket_fetch
SpecConcurrent == InitConcurrent /\ [][NextConcurrent]_vars

(***************************************************************************)
(* Properties.                                                             *)
(***************************************************************************)
QueryDone(kind) == query.kind = kind /\ query.phase = "done" /\ query.body.success
ScannedKeys == query.keys.data.publicKeys

\* C1: whatever accounts are closed between the address scan and the batch
\* fetch, every entry BetOrders.fetch / MarketOutcomes.fetch returns has an
\* account body, its publicKey is one the scan returned, and the list is no
\* longer than the scanned address list.
FetchedList ==
    IF query.kind = "bet_order" THEN query.body.data.betOrderAccounts
    ELSE query.body.data.marketOutcomeAccounts
C1_FetchDropsClosedAccounts ==
    (QueryDone("bet_order") \/ QueryDone("market_outcome")) =>
        /\ \A i \in 1..Len(FetchedList) :
            /\ Truthy(FetchedList[i].account)
            /\ FetchedList[i].publicKey \in SeqToSet(ScannedKeys)
        /\ Len(FetchedList) <= Len(ScannedKeys)
C1_Witness ==
    /\ QueryDone("bet_order")
    /\ \E pk \in SeqToSet(ScannedKeys) : pk \in closed
    /\ Len(FetchedList) >= 1
    /\ Len(FetchedList) < Len(ScannedKeys)

Submissions(betOrderPk) == {k \in 1..Len(txLog) : txLog[k].accounts.betOrder = betOrderPk}
InCancelAll == call.op = "cancelBetOrdersForMarket"
ReturnedFrom(op) == call.op = op /\ ret.kind = "returned"
LastSubmissionFailed == txLog # <<>> /\ ~txLog[Len(txLog)].ok

\* C3: cancelBetOrdersForMarket, when the fetch of the provider's orders on the
\* market came back with no order that has unmatched stake, returns an envelope
\* whose errors contain the M001 error, and no transaction is sent in the call.
C3_NothingToCancel ==
    (/\ InCancelAll
     /\ pc # "cancelAll:cancellable"
     /\ query.phase = "done"
     /\ Has(query.body.data, "betOrderAccounts")
     /\ \A i \in 1..Len(query.body.data.betOrderAccounts) :
            query.body.data.betOrderAccounts[i].account.stakeUnmatched <= 0)
    => /\ ret.kind = "returned"
       /\ \E i \in 1..Len(ret.value.errors) :
            /\ ret.value.errors[i].errorCode = "M001"
            /\ ret.value.errors[i].errorMessage = "No cancellable bet orders found."
       /\ ~ret.value.success
       /\ txLog = <<>>

\* an empty cancellable set drawn from a non-empty set of fetched orders
C3_Witness ==
    /\ ReturnedFrom("cancelBetOrdersForMarket")
    /\ query.phase = "done"
    /\ Has(query.body.data, "betOrderAccounts")
    /\ Len(query.body.data.betOrderAccounts) >= 1
    /\ \A i \in 1..Len(query.body.data.betOrderAccounts) :
            query.body.data.betOrderAccounts[i].account.stakeUnmatched = 0
    /\ ret.value.errors = <<NoCancellableBetOrdersFound>>
    /\ txLog = <<>>

\* C4: when cancelBetOrdersForMarket returns its data over n cancellable orders
\* of which the set F had a failed submission, tnxIDs has n - |F| entries,
\* failedCancellationBetOrders is exactly the keys of F, and every order is
\* either in the failed list or has its signature in tnxIDs, never both.
C4_ResultsPartitioned ==
    (ReturnedFrom("cancelBetOrdersForMarket") /\ Has(ret.value.data, "tnxIDs")) =>
        LET orders == local.betOrders
            n == Len(orders)
            F == {i \in 1..n : \E k \in Submissions(orders[i].publicKey) : ~txLog[k].ok}
            tnxIDs == ret.value.data.tnxIDs
            failed == ret.value.data.failedCancellationBetOrders
        IN /\ n >= 1
           /\ Len(tnxIDs) = n - Cardinality(F)
           /\ Cardinality(SeqToSet(tnxIDs)) = Len(tnxIDs)
           /\ Len(failed) = Cardinality(F)
           /\ SeqToSet(failed) = {orders[i].publicKey : i \in F}
           /\ \A i \in 1..n :
                (orders[i].publicKey \in SeqToSet(failed))
                    # (\E k \in Submissions(orders[i].publicKey) :
                            txLog[k].ok /\ TxSignature(k) \in SeqToSet(tnxIDs))

\* three orders of which two fail: one signature, two failed keys
C4_Witness ==
    /\ ReturnedFrom("cancelBetOrdersForMarket")
    /\ Has(ret.value.data, "tnxIDs")
    /\ Len(local.betOrders) = 3
    /\ Cardinality({k \in 1..Len(txLog) : ~txLog[k].ok}) = 2
    /\ Len(ret.value.data.tnxIDs) = 1
    /\ Len(ret.value.data.failedCancellationBetOrders) = 2

\* C5: in cancelBetOrdersForMarket no order's cancelBet is sent twice, and once
\* every order's callback has finished each order's cancelBet was sent exactly
\* once, whatever happened to the other orders.
C5_EachOrderAttemptedOnce ==
    (InCancelAll /\ tasks # <<>>) =>
        \A i \in DOMAIN tasks :
            LET attempts == Cardinality(Submissions(local.betOrders[i].publicKey))
            IN /\ attempts <= 1
               /\ (\A j \in DOMAIN tasks : tasks[j].state \in {"settled", "threw"})
                    => attempts = 1

\* C6: cancelBetOrder, cancelBetOrdersForMarket, createBetOrder,
\* getCancellableBetOrdersByMarketForProviderWallet and
\* getMarketOutcomeTitlesByMarket never reject: every failure is in the envelope.
C6_NoOperationThrows ==
    call.op \in {"cancelBetOrder", "cancelBetOrdersForMarket", "createBetOrder",
                 "getCancellableBetOrdersByMarketForProviderWallet",
                 "getMarketOutcomeTitlesByMarket"}
        => ret.kind # "rejected"

SuccessIffNoErrors(r) == r.success <=> (r.errors = <<>>)

\* C7: every envelope, while it is built and when it is returned, has
\* success = true exactly when its errors list is empty; a failed submission in
\* cancelBetOrder or createBetOrder returns success = false with the data set.
C7_SuccessIffNoErrors ==
    /\ SuccessIffNoErrors(response)
    /\ SuccessIffNoErrors(query.keys)
    /\ SuccessIffNoErrors(query.body)
    /\ (ret.kind = "returned" /\ call.op # "getMarketOutcomeTitlesByMarket")
            => SuccessIffNoErrors(ret.value)
    /\ ((ReturnedFrom("cancelBetOrder") \/ ReturnedFrom("createBetOrder"))
            /\ LastSubmissionFailed)
            => /\ ~ret.value.success
               /\ ret.value.errors # <<>>
               /\ Has(ret.value.data, "betOrderPk")

\* createBetOrder returns after a failed submission
C7_Witness ==
    /\ ReturnedFrom("createBetOrder")
    /\ LastSubmissionFailed
    /\ ~ret.value.success
    /\ Len(ret.value.errors) = 1
    /\ Has(ret.value.data, "betOrderPk")

\* C8: cancelBetOrder, when its submission fails, returns an envelope whose
\* errors contain the submission error and whose data has the input betOrderPk
\* and no transaction id.
C8_FailedCancelReported ==
    (ReturnedFrom("cancelBetOrder") /\ LastSubmissionFailed) =>
        /\ \E i \in 1..Len(ret.value.errors) :
                ret.value.errors[i] = TxError("cancelBet", call.betOrderPk)
        /\ Has(ret.value.data, "betOrderPk")
        /\ ret.value.data.betOrderPk = call.betOrderPk
        /\ Get(ret.value.data, "tnxID") = Undefined

\* a cancelBetOrder whose only transaction failed, on an order that exists
C8_Witness ==
    /\ ReturnedFrom("cancelBetOrder")
    /\ Len(txLog) = 1
    /\ ~txLog[1].ok
    /\ AccountsResolved(txLog[1].accounts)
    /\ ret.value.data.betOrderPk = call.betOrderPk
    /\ Len(ret.value.errors) = 1

\* the price point of an order of the returned pending list
Triple(betOrder, market) ==
    [marketOutcome |-> market.marketOutcomes[betOrder.account.marketOutcomeIndex + 1],
     odds |-> betOrder.account.expectedOdds,
     backing |-> betOrder.account.backing]
TripleOfPrice(price) ==
    [marketOutcome |-> price.marketOutcome, odds |-> price.odds, backing |-> price.backing]
PricesReturned ==
    /\ ReturnedFrom("getMarketPrices")
    /\ ret.value.success
    /\ Has(ret.value.data, "marketPrices")

\* C9: when getMarketPrices succeeds, the (marketOutcome, odds, backing) triples
\* of data.marketPrices are pairwise different and are exactly the triples of the
\* orders in data.pendingBetOrders, so orders sharing a triple yield one entry.
C9_DistinctPrices ==
    PricesReturned =>
        LET data == ret.value.data
            pendingTriples == {Triple(data.pendingBetOrders[i], data.market) :
                                i \in 1..Len(data.pendingBetOrders)}
            priceTriples == {TripleOfPrice(data.marketPrices[i]) :
                                i \in 1..Len(data.marketPrices)}
        IN /\ priceTriples = pendingTriples
           /\ Len(data.marketPrices) = Cardinality(priceTriples)

\* three pending orders, two of them at the same price: two prices
C9_Witness ==
    /\ PricesReturned
    /\ Len(ret.value.data.pendingBetOrders) = 3
    /\ Len(ret.value.data.marketPrices) = 2
    /\ \E i, j \in 1..3 :
        /\ i # j
        /\ Triple(ret.value.data.pendingBetOrders[i], ret.value.data.market)
            = Triple(ret.value.data.pendingBetOrders[j], ret.value.data.market)

\* a bet order of the market that is open, or matched with a remainder
IsPending(betOrder, marketPk) ==
    /\ betOrder.market = marketPk
    /\ \/ betOrder.betOrderStatus = Open
       \/ betOrder.betOrderStatus = Matched /\ betOrder.stakeUnmatched > 0

\* C10: when getMarketPrices succeeds, data.pendingBetOrders lists, each once and
\* with its account as on the ledger, only orders of the market that are Open or
\* Matched with stakeUnmatched > 0, and every such order that was not closed
\* during the call.
C10_PendingBetOrders ==
    PricesReturned =>
        LET pending == ret.value.data.pendingBetOrders
            keys == {pending[i].publicKey : i \in 1..Len(pending)}
        IN /\ Cardinality(keys) = Len(pending)
           /\ \A i \in 1..Len(pending) :
                /\ pending[i].publicKey \in BetOrderPks
                /\ pending[i].account = ledger[pending[i].publicKey]
                /\ IsPending(pending[i].account, call.marketPk)
           /\ \A pk \in BetOrderPks \ closed :
                IsPending(ledger[pk], call.marketPk) => pk \in keys

\* an open and a partially matched order are listed, a fully matched one of the
\* same market is not
C10_Witness ==
    /\ PricesReturned
    /\ \E i, j \in 1..Len(ret.value.data.pendingBetOrders) :
        /\ ret.value.data.pendingBetOrders[i].account.betOrderStatus = Open
        /\ ret.value.data.pendingBetOrders[j].account.betOrderStatus = Matched
    /\ \E pk \in BetOrderPks :
        /\ ledger[pk].market = call.marketPk
        /\ ledger[pk].betOrderStatus = Matched
        /\ ledger[pk].stakeUnmatched = 0
        /\ pk \notin closed

\* C11: a getMarketPrices call in which a sub-operation failed ends with a
\* returned envelope that has the errors and no data; an envelope never has
\* errors together with market, pendingBetOrders or marketPrices.
C11_FailureCarriesNoData ==
    (call.op = "getMarketPrices" /\ pc = "done") =>
        /\ ret.kind = "returned"
        /\ ret.value.success <=> Has(ret.value.data, "marketPrices")
        /\ ~ret.value.success =>
            /\ ret.value.errors # <<>>
            /\ ret.value.data = EmptyData

PositionTitles == MarketAccount(call.marketPk).marketOutcomes
PositionSums == local.marketPosition.marketOutcomeSums

\* C12: getMarketPosition, when the market has as many outcome titles as the
\* position has sums, returns outcomePositions with exactly the titles as keys,
\* the i-th title mapped to the i-th sum.
C12_PositionsZipTitlesWithSums ==
    (ReturnedFrom("getMarketPosition") /\ ret.value.success
        /\ Len(PositionTitles) = Len(PositionSums)) =>
        /\ DOMAIN ret.value.data.outcomePositions = SeqToSet(PositionTitles)
        /\ \A i \in 1..Len(PositionTitles) :
            ret.value.data.outcomePositions[PositionTitles[i]] = PositionSums[i]

\* titles A, B and sums 10, 20 give A: 10, B: 20
C12_Witness ==
    /\ ReturnedFrom("getMarketPosition")
    /\ ret.value.success
    /\ PositionTitles = <<TitleA, TitleB>>
    /\ PositionSums = <<BN(10), BN(20)>>
    /\ ret.value.data.outcomePositions = (TitleA :> BN(10)) @@ (TitleB :> BN(20))

\* C13: getMarketPosition, when the number of outcome titles differs from the
\* number of sums of the position, returns an unsuccessful envelope with an error.
C13_LengthMismatchIsAnError ==
    (ReturnedFrom("getMarketPosition") /\ Len(PositionTitles) # Len(PositionSums)) =>
        /\ ~ret.value.success
        /\ ret.value.errors # <<>>

\* C14: getCancellableBetOrdersByMarketForProviderWallet on success lists, each
\* once and with its ledger account, exactly the bet orders of the provider
\* wallet on the market that exist at the fetch and have stakeUnmatched > 0.
C14_CancellableOrders ==
    (ReturnedFrom("getCancellableBetOrdersByMarketForProviderWallet")
        /\ ret.value.success) =>
        LET listed == ret.value.data.betOrderAccounts
            keys == {listed[i].publicKey : i \in 1..Len(listed)}
        IN /\ Cardinality(keys) = Len(listed)
           /\ \A i \in 1..Len(listed) :
                /\ listed[i].publicKey \in BetOrderPks
                /\ listed[i].account = ledger[listed[i].publicKey]
           /\ keys = {pk \in BetOrderPks \ closed :
                        /\ ledger[pk].purchaser = ProviderWallet
                        /\ ledger[pk].market = call.marketPk
                        /\ ledger[pk].stakeUnmatched > 0}

\* an order with a remainder is listed; a fully matched order of the wallet on
\* the market and an order closed before the fetch are not
C14_Witness ==
    /\ ReturnedFrom("getCancellableBetOrdersByMarketForProviderWallet")
    /\ ret.value.success
    /\ Len(ret.value.data.betOrderAccounts) = 1
    /\ \E pk \in BetOrderPks \ closed :
        /\ ledger[pk].purchaser = ProviderWallet
        /\ ledger[pk].market = call.marketPk
        /\ ledger[pk].stakeUnmatched = 0
    /\ \E pk \in closed :
        /\ ledger[pk].purchaser = ProviderWallet
        /\ ledger[pk].market = call.marketPk
        /\ ledger[pk].stakeUnmatched > 0

EventReturned ==
    /\ ReturnedFrom("getBetOrdersByEventForProviderWallet")
    /\ Has(ret.value.data, "betOrderAccounts")
SucceededQueries == {i \in DOMAIN tasks : tasks[i].body.success}
FailedQueries == {i \in DOMAIN tasks : ~tasks[i].body.success}
RECURSIVE SumOver(_, _)
SumOver(set, f) ==
    IF set = {} THEN 0
    ELSE LET x == CHOOSE x \in set : TRUE IN f[x] + SumOver(set \ {x}, f)

\* C16: when the market scan of getBetOrdersByEventForProviderWallet succeeded,
\* data.betOrderAccounts is the union of the results of the markets whose query
\* succeeded, nothing lost and nothing twice, and errors holds the errors of
\* every market whose query failed.
C16_EventCollectsPerMarket ==
    EventReturned =>
        LET listed == ret.value.data.betOrderAccounts
        IN /\ SeqToSet(listed) =
                UNION {SeqToSet(tasks[i].body.data.betOrderAccounts) :
                        i \in SucceededQueries}
           /\ Len(listed) =
                SumOver(SucceededQueries,
                    [i \in DOMAIN tasks |->
                        IF tasks[i].body.success
                        THEN Len(tasks[i].body.data.betOrderAccounts) ELSE 0])
           /\ \A i \in FailedQueries :
                SeqToSet(tasks[i].body.errors) \subseteq SeqToSet(ret.value.errors)
           /\ Len(ret.value.errors) =
                SumOver(FailedQueries,
                    [i \in DOMAIN tasks |-> Len(tasks[i].body.errors)])

\* one market's query failed before the other's orders were collected, and the
\* orders are returned next to the error
C16_Witness ==
    /\ EventReturned
    /\ Len(tasks) = 2
    /\ ~tasks[1].body.success
    /\ tasks[2].body.success
    /\ Len(tasks[2].body.data.betOrderAccounts) >= 1
    /\ ret.value.data.betOrderAccounts = tasks[2].body.data.betOrderAccounts
    /\ ret.value.errors = tasks[1].body.errors

\* C17: two createBetOrder calls of the wallet on the same market never derive
\* the same bet order address: no two createBet transactions of the log for one
\* market name the same betOrder account.
C17_FreshBetOrderAddressPerCall ==
    \A j, k \in 1..Len(txLog) :
        (/\ j < k
         /\ txLog[j].instruction = "createBet"
         /\ txLog[k].instruction = "createBet"
         /\ txLog[j].accounts.market = txLog[k].accounts.market
         /\ txLog[j].accounts.betOrder # Undefined
         /\ txLog[k].accounts.betOrder # Undefined)
        => txLog[j].accounts.betOrder # txLog[k].accounts.betOrder

Derived == pc = "done" /\ Has(call, "first")
\* odds in thousandths, rounded as toFixed(3) rounds
Thousandths(odds) == (2 * odds * 1000 + OddsScale) \div (2 * OddsScale)
\* the components in which the two seed tuples differ, odds taken to three
\* decimal places
DifferingComponents ==
    {f \in DOMAIN call.first :
        IF f = "odds" THEN Thousandths(call.first[f]) # Thousandths(call.second[f])
        ELSE call.first[f] # call.second[f]}

\* C18 as stated: two seed tuples that differ derive different addresses.
C18_DerivationInjective ==
    (Derived /\ call.first # call.second)
        => local.first.data.pda # local.second.data.pda

\* C18: for findMarketOutcomePda, findMarketPositionPda and
\* findMarketMatchingPoolPda, two seed tuples that differ in exactly one
\* component, odds compared at three decimal places, derive different addresses.
C18_DerivationInjectivePerComponent ==
    (Derived /\ Cardinality(DifferingComponents) = 1)
        => local.first.data.pda # local.second.data.pda

\* two matching pools that differ in the odds only, 1.5 and 1.25
C18_Witness ==
    /\ Derived
    /\ call.op = "findMarketMatchingPoolPda"
    /\ DifferingComponents = {"odds"}
    /\ call.first.odds = 15000
    /\ call.second.odds = 12500
    /\ local.first.data.pda # local.second.data.pda

IsBuilder == pc = "built"
\* the byte offset of the field a filterBy* method of a builder class compares
FieldOffset(class, method) ==
    IF class = "MarketOutcomes" THEN 8
    ELSE CASE method = "filterByPurchaser" -> 8
           [] method = "filterByMarket" -> 40
           [] method = "filterByStatus" -> 75

\* C19: after construction and any sequence of filterBy* calls on a BetOrders
\* or MarketOutcomes builder, the filter list starts with the account-type
\* discriminator at offset 0 and continues with exactly one element per call,
\* in call order, each at the fixed offset of its field (BetOrders: purchaser
\* 8, market 40, status 75; MarketOutcomes: market 8) and comparing with the
\* call's argument; so no call has removed or rewritten an earlier filter.
C19_FiltersAppendedInCallOrder ==
    IsBuilder =>
        LET filter == local._filter
            calls == call.calls
        IN /\ Len(filter) = 1 + Len(calls)
           /\ filter[1].memcmp.offset = 0
           /\ Bs58Decode(filter[1].memcmp.bytes)
                = <<"discriminator",
                    IF call.op = "BetOrders" THEN "bet_order" ELSE "market_outcome">>
           /\ \A i \in 1..Len(calls) :
                /\ filter[i + 1].memcmp.offset = FieldOffset(call.op, calls[i][1])
                /\ Bs58Decode(filter[i + 1].memcmp.bytes) = calls[i][2]

\* a BetOrders builder narrowed by status, then market, then purchaser
C19_Witness ==
    /\ IsBuilder
    /\ call.op = "BetOrders"
    /\ Len(call.calls) = 3
    /\ call.calls[1][1] = "filterByStatus"
    /\ call.calls[2][1] = "filterByMarket"
    /\ call.calls[3][1] = "filterByPurchaser"
    /\ Len(local._filter) = 4

TitlesReturned == ReturnedFrom("getMarketOutcomeTitlesByMarket")
\* the outcome accounts the fetch delivered, whatever their order
FetchedOutcomes ==
    {query.body.data.marketOutcomeAccounts[k].account :
        k \in 1..Len(query.body.data.marketOutcomeAccounts)}

\* C20: whatever the order in which the scan lists the market's outcome
\* accounts, getMarketOutcomeTitlesByMarket returns the same sequence: position
\* i holds the title of the outcome account whose index field is i, and only
\* the positions of the accounts found are filled.
C20_TitlesByOwnIndex ==
    TitlesReturned =>
        /\ DOMAIN ret.value = {account.index : account \in FetchedOutcomes}
        /\ \A account \in FetchedOutcomes :
             /\ account.market = call.marketPk
             /\ ret.value[account.index] = account.title
             /\ account.title = MarketAccount(call.marketPk).marketOutcomes[account.index + 1]

\* the scan listed outcome 1 before outcome 0
C20_Witness ==
    /\ TitlesReturned
    /\ query.keys.data.publicKeys
         = <<MarketOutcomePk(call.marketPk, 1), MarketOutcomePk(call.marketPk, 0)>>
    /\ Len(query.body.data.marketOutcomeAccounts) = 2
    /\ ret.value[0] = MarketAccount(call.marketPk).marketOutcomes[1]
    /\ ret.value[1] = MarketAccount(call.marketPk).marketOutcomes[2]

\* C21: every batch fetch requests the consistency level "confirmed": a query
\* whose batch fetch has been issued, a bet-order fetch or the matching-pool
\* fetch of getMarketPrices among them, has named "confirmed".
C21_BatchFetchesConfirmed ==
    query.commitment # NotRequested => query.commitment = Confirmed

\* C22: with public calls running concurrently in any interleaving, the
\* envelope of each call holds the errors and data that call itself recorded
\* and nothing else, the filter list of each call's query holds the
\* discriminator and that call's own two filters and nothing else, and no two
\* calls hold the same envelope or the same filter list.
C22_NoStateSharedBetweenCalls ==
    \A c \in DOMAIN tasks :
        /\ local.responses[tasks[c].response] = tasks[c].built
        /\ local.filters[tasks[c].query]
             = <<toFilter(0, Bs58Encode(accountDiscriminator("bet_order"))),
                 toFilter(8, toBase58(ProviderWallet)),
                 toFilter(40, toBase58(tasks[c].marketPk))>>
        /\ \A d \in DOMAIN tasks :
             c # d => /\ tasks[c].response # tasks[d].response
                      /\ tasks[c].query # tasks[d].query

\* a second call on another market began and failed while the first call was
\* waiting for its batch fetch
C22_Witness ==
    /\ Len(tasks) = 2
    /\ tasks[1].marketPk # tasks[2].marketPk
    /\ tasks[1].pc = "fetch"
    /\ tasks[2].pc = "done"
    /\ local.responses[tasks[2].response].errors # <<>>
    /\ local.responses[tasks[1].response].errors = <<>>

\* the address at which the ledger keeps the matching pool of a price
PoolAddressOf(price) ==
    MarketMatchingPoolPk(call.marketPk, price.marketOutcome, price.odds, price.backing)

\* C23: when getMarketPrices succeeds, every entry of data.marketPrices has as
\* matchingPoolPda the address derived from its own market, outcome, odds and
\* side; when a pool account exists there at the fetch the entry's matchingPool
\* is that account, and an entry never carries any other account.
C23_PoolAttachedByOwnAddress ==
    PricesReturned =>
        \A i \in 1..Len(ret.value.data.marketPrices) :
            LET price == ret.value.data.marketPrices[i]
            IN /\ price.matchingPoolPda = PoolAddressOf(price)
               /\ AccountExists(PoolAddressOf(price)) => Has(price, "matchingPool")
               /\ Has(price, "matchingPool") =>
                    /\ AccountExists(PoolAddressOf(price))
                    /\ price.matchingPool = MarketMatchingPoolAccountAt(PoolAddressOf(price))

\* two prices, each with the pool of its own address, the pools being different
C23_Witness ==
    /\ PricesReturned
    /\ Len(ret.value.data.marketPrices) = 2
    /\ \A i \in 1..2 : Has(ret.value.data.marketPrices[i], "matchingPool")
    /\ ret.value.data.marketPrices[1].matchingPool
        # ret.value.data.marketPrices[2].matchingPool

\* a query object whose address scan has failed
ScanFailed ==
    /\ query.kind \in {"bet_order", "market_outcome"}
    /\ query.phase \in {"fetch", "done"}
    /\ ~query.keys.success

\* C24: in BetOrders.fetch and MarketOutcomes.fetch a failed address scan ends
\* the fetch with no batch fetch issued and an envelope holding the scan's
\* errors and no data; in getMarketPosition a failed market fetch ends the call
\* with the position account never read and an envelope holding that one error
\* and no data.
C24_SequentialReadsFailFast ==
    /\ ScanFailed =>
        /\ query.phase = "done"
        /\ query.commitment = NotRequested
        /\ query.keys.errors # <<>>
        /\ query.body.errors = query.keys.errors
        /\ query.body.data = EmptyData
        /\ ~query.body.success
    /\ (ReturnedFrom("getMarketPosition") /\ call.failure = "market.fetch") =>
        /\ local.requests = <<"market.fetch">>
        /\ ret.value.errors = <<RemoteError("market.fetch")>>
        /\ ret.value.data = EmptyData
        /\ ~ret.value.success

\* getMarketPosition has returned after its market fetch failed
C24_Witness ==
    /\ ReturnedFrom("getMarketPosition")
    /\ call.failure = "market.fetch"
    /\ Len(ret.value.errors) = 1

\* a bet-order fetch has ended on a failed scan
C24_ScanWitness ==
    /\ ScanFailed
    /\ query.kind = "bet_order"
    /\ query.phase = "done"

MarketsReturned == ReturnedFrom("getMarkets")

\* C25: whatever the order in which the callbacks of a fan-out complete,
\* getMarkets returns one position per input key, position i holding the account
\* of marketPks[i] when its fetch succeeded; getMarketPrices returns the prices
\* in the order worked out before the fan-out, each with the pool of its own
\* address; getBetOrdersByEventForProviderWallet returns the set of orders of
\* the markets whose query succeeded and the set of errors of the others.
C25_ResultIndependentOfCompletionOrder ==
    /\ MarketsReturned =>
        /\ Len(ret.value.data.markets) = Len(call.marketPks)
        /\ \A i \in 1..Len(call.marketPks) :
             tasks[i].success =>
                ret.value.data.markets[i]
                    = [publicKey |-> call.marketPks[i],
                       account |-> MarketAccount(call.marketPks[i])]
    /\ PricesReturned =>
        /\ Len(ret.value.data.marketPrices) = Len(local.marketPrices)
        /\ \A i \in 1..Len(local.marketPrices) :
             LET price == ret.value.data.marketPrices[i]
             IN /\ TripleOfPrice(price) = TripleOfPrice(local.marketPrices[i])
                /\ price.matchingPoolPda = local.marketPrices[i].matchingPoolPda
                /\ Has(price, "matchingPool") = AccountExists(price.matchingPoolPda)
                /\ Has(price, "matchingPool") =>
                     price.matchingPool = MarketMatchingPoolAccountAt(price.matchingPoolPda)
    /\ EventReturned =>
        /\ SeqToSet(ret.value.data.betOrderAccounts)
             = UNION {SeqToSet(tasks[i].body.data.betOrderAccounts) : i \in SucceededQueries}
        /\ SeqToSet(ret.value.errors)
             = UNION {SeqToSet(tasks[i].body.errors) : i \in FailedQueries}

\* getMarkets for two different markets whose second fetch completed first
C25_Witness ==
    /\ MarketsReturned
    /\ Len(call.marketPks) = 2
    /\ call.marketPks[1] # call.marketPks[2]
    /\ local.completed = <<2, 1>>
    /\ tasks[1].success
    /\ tasks[2].success
    /\ ret.value.data.markets[1].publicKey = call.marketPks[1]

\* the sub-queries of a getMarketPrices call: the matched-order query has
\* completed; the open-order query and the market fetch have been started
MatchedQueryCompleted ==
    \/ pc = "prices:matched" /\ query.phase = "done"
    \/ pc \in {"prices:open", "prices:pools"}
OpenQueryStarted == pc \in {"prices:open", "prices:pools"}

\* C26: in getMarketPrices the matched-order query, the open-order query and
\* the market fetch are all started before one of them has completed, so the
\* matched-order query is never complete while the others have not begun; in
\* cancelBetOrdersForMarket the callbacks of all orders are started together.
C26_SubQueriesStartedTogether ==
    /\ (call.op = "getMarketPrices" /\ MatchedQueryCompleted) => OpenQueryStarted
    /\ pc = "cancelAll:fanout" => Len(tasks) = Len(local.betOrders)

\* C27: in a createBetOrder call at most one transaction is submitted; the
\* distinct seed it passes to createBet is the seed the instruction's betOrder
\* address was derived from, with the instruction's market and purchaser; and
\* the returned data.betOrderPk is the instruction's betOrder address, whether
\* the submission succeeded or failed.
C27_SeedAndAddressOfOneDerivation ==
    call.op = "createBetOrder" =>
        /\ Len(txLog) <= 1
        /\ \A k \in 1..Len(txLog) :
             /\ txLog[k].instruction = "createBet"
             /\ txLog[k].accounts.betOrder # Undefined =>
                  txLog[k].accounts.betOrder
                    = findProgramAddress(<<txLog[k].accounts.market,
                                           txLog[k].accounts.purchaser,
                                           BufferFrom(txLog[k].distinctSeed)>>)
        /\ ret.kind = "returned" =>
             /\ Len(txLog) = 1
             /\ ret.value.data.betOrderPk = txLog[1].accounts.betOrder

\* a createBet for a derived address was submitted and failed
C27_Witness ==
    /\ ReturnedFrom("createBetOrder")
    /\ ~txLog[1].ok
    /\ txLog[1].accounts.betOrder # Undefined
    /\ ret.value.data.betOrderPk = txLog[1].accounts.betOrder
    /\ ~ret.value.success

\* C28: when cancelBetOrdersForMarket has submitted the cancellations of a
\* non-empty cancellable set and returns, the envelope has one error for each
\* failed submission, as many errors as data.failedCancellationBetOrders has
\* keys, and success is true exactly when that list is empty.
C28_OneErrorPerFailedCancellation ==
    (ReturnedFrom("cancelBetOrdersForMarket") /\ Len(txLog) >= 1) =>
        LET failed == ret.value.data.failedCancellationBetOrders
        IN /\ Len(ret.value.errors) = Cardinality({k \in 1..Len(txLog) : ~txLog[k].ok})
           /\ Len(ret.value.errors) = Len(failed)
           /\ ret.value.success = (failed = <<>>)

\* two cancellations of which one failed
C28_Witness ==
    /\ ReturnedFrom("cancelBetOrdersForMarket")
    /\ Len(txLog) = 2
    /\ Len(ret.value.data.failedCancellationBetOrders) = 1
    /\ Len(ret.value.errors) = 1
    /\ Len(ret.value.data.tnxIDs) = 1

====
